---- MODULE Spec2Model ----
(***************************************************************************)
(* Credential pool and request pipeline of the CatieCli proxy.             *)
(*   backend/app/services/credential_pool.py   CredentialPool              *)
(*   backend/app/routers/proxy.py              /v1/chat/completions and    *)
(*                                             native generateContent      *)
(*   backend/app/routers/antigravity_proxy.py  Antigravity chat handler    *)
(* Model names are sequences of tokens (the pieces between "-" and "/"),   *)
(* an upstream error is the text of the raised exception, reduced to the   *)
(* substrings the handlers look for.                                       *)
(***************************************************************************)
EXTENDS Integers, Sequences, FiniteSets, TLC

\* ---------------------------------------------------------------- bounds
NCreds == 3
MaxTime == 1
MaxPoolCalls == 2
MaxRotationCalls == 3
InitialBonus == 5

\* ---------------------------------------------------------------- settings
error_retry_count == 1
cd_flash == 1
cd_pro == 2
cd_30 == 1
base_rpm == 1
contributor_rpm == 2
quota_flash == 2
quota_25pro == 1
quota_30pro == 1
no_cred_quota_flash == 2
no_cred_quota_25pro == 1
RpmWindow == 60
DaySeconds == 86400
ResetSecond == 25200
DefaultStatus == 500
Default429Delay == 60
RetryAfter == 45
DailyQuota == 3

Users == {1, 2}
CredIds == 1 .. NCreds
ReqIds == {1}
NoCred == 0
NoTime == 0 - 1
PoolModes == {"private", "tier3_shared", "full_shared"}
ApiTypes == {"geminicli", "antigravity"}
ProjectIds == {"NULL", "", "p1"}

\* ---------------------------------------------------------------- model names
ModelNames ==
  { <<"gcli", "gemini", "2.5", "flash">>,
    <<"Gemini", "3", "pro", "preview">>,
    <<"agy", "gemini", "3", "flash">>,
    <<"agy", "gemini", "2.5", "pro">> }

DefaultModel == <<"gemini", "2.5", "flash">>

\* str.lower() on one token
Lower(tok) == IF tok = "Gemini" THEN "gemini" ELSE tok

\* "gemini-3-" in model.lower(): token gemini, then token 3, then a further "-"
HasGemini3Marker(model) ==
  \E i \in 1 .. Len(model) :
     /\ i + 2 <= Len(model)
     /\ Lower(model[i]) = "gemini"
     /\ Lower(model[i + 1]) = "3"

\* "pro" in model.lower()
HasPro(model) == \E i \in 1 .. Len(model) : Lower(model[i]) = "pro"

get_required_tier(model) == IF HasGemini3Marker(model) THEN "3" ELSE "2.5"

get_model_group(model) ==
  IF Len(model) = 0 THEN "flash"
  ELSE IF HasGemini3Marker(model) THEN "30"
  ELSE IF HasPro(model) THEN "pro"
  ELSE "flash"

get_cd_seconds(model_group) ==
  IF model_group = "30" THEN cd_30
  ELSE IF model_group = "pro" THEN cd_pro
  ELSE cd_flash

\* ---------------------------------------------------------------- state
VARIABLES
  now,        \* wall clock, seconds
  pool_mode,  \* settings.credential_pool_mode
  creds,      \* table credentials
  users,      \* table users
  logs,       \* table usage_logs, in insertion order
  reqs,       \* the requests: inputs, locals of the handler, response
  pool_calls, \* number of direct calls of the pool made so far
  last_call,  \* the last direct call of the pool: its arguments and its result
  disabled    \* the credentials failure handling has disabled

vars == <<now, pool_mode, creds, users, logs, reqs, pool_calls, last_call, disabled>>

\* stamp of a credential for one model group
StampOf(cred, model_group) ==
  IF model_group = "30" THEN cred.last_used_30
  ELSE IF model_group = "pro" THEN cred.last_used_pro
  ELSE cred.last_used_flash

is_credential_in_cd(cred, model_group, t) ==
  IF get_cd_seconds(model_group) <= 0 THEN FALSE
  ELSE IF StampOf(cred, model_group) = NoTime THEN FALSE
  ELSE t < StampOf(cred, model_group) + get_cd_seconds(model_group)

\* the tier-3 check answering yes for every user
check_user_has_tier3_creds_any(cr, user_id, mode) == TRUE

check_user_has_tier3_creds(cr, user_id, mode) ==
  \E c \in CredIds :
     /\ cr[c].user_id = user_id
     /\ cr[c].api_type = mode
     /\ cr[c].model_tier = "3"
     /\ cr[c].is_active

\* the donor check answering yes for every user
check_user_has_public_creds_any(cr, user_id, mode) == TRUE

check_user_has_public_creds(cr, user_id, mode) ==
  \E c \in CredIds :
     /\ cr[c].user_id = user_id
     /\ cr[c].api_type = mode
     /\ cr[c].is_public
     /\ cr[c].is_active

\* no direct call of the pool yet
NoCall ==
  [op |-> "", cred |-> NoCred, user_id |-> 0, model |-> <<>>, mode |-> "",
   in_cd |-> FALSE, rivals |-> 0, refreshed |-> FALSE, stored |-> FALSE]

\* ---------------------------------------------------------------- selection
\* the query without its is_active condition
QueryActiveDropped(cred) == TRUE

\* WHERE is_active = TRUE
QueryActive(cred) == cred.is_active

\* WHERE api_type = mode
QueryVariant(cred, mode) == cred.api_type = mode

\* the query without its project_id condition
QueryProjectDropped(cred) == TRUE

\* WHERE project_id IS NOT NULL AND project_id != ''
QueryProject(cred) == cred.project_id # "NULL" /\ cred.project_id # ""

\* WHERE id NOT IN exclude_ids (only when exclude_ids is not empty)
QueryExclude(c, exclude_ids) ==
  IF exclude_ids # {} THEN c \notin exclude_ids ELSE TRUE

\* the query without its model_tier condition
QueryTierDropped(cred, required_tier) == TRUE

\* WHERE model_tier = '3' for a request that needs tier 3
QueryTier(cred, required_tier) ==
  IF required_tier = "3" THEN cred.model_tier = "3" ELSE TRUE

\* the access rule without its ownership condition
OwnOrPublicDropped(cred, user_id) == TRUE

\* WHERE is_public = TRUE OR user_id = :user_id
OwnOrPublic(cred, user_id) == cred.is_public \/ cred.user_id = user_id

\* the access rule of the pool mode
QueryScope(cr, cred, pm, user_id, user_has_public_creds, required_tier, mode) ==
  IF pm = "private" THEN cred.user_id = user_id
  ELSE IF pm = "tier3_shared" THEN
    IF required_tier = "3" THEN
      IF check_user_has_tier3_creds(cr, user_id, mode)
        THEN OwnOrPublic(cred, user_id)
        ELSE cred.user_id = user_id
    ELSE OwnOrPublic(cred, user_id)
  ELSE
    IF user_has_public_creds THEN OwnOrPublic(cred, user_id)
    ELSE cred.user_id = user_id

\* the rows the query of get_available_credential returns
Candidates(cr, pm, user_id, user_has_public_creds, model, exclude_ids, mode) ==
  { c \in CredIds :
      /\ QueryActive(cr[c])
      /\ QueryVariant(cr[c], mode)
      /\ QueryProject(cr[c])
      /\ QueryExclude(c, exclude_ids)
      /\ QueryTier(cr[c], get_required_tier(model))
      /\ QueryScope(cr, cr[c], pm, user_id, user_has_public_creds,
                    get_required_tier(model), mode) }

\* the rows in no particular order
FirstByLastUsedAny(cr, S) == S

\* ORDER BY last_used_at ASC NULLS FIRST: the rows that may come first
FirstByLastUsed(cr, S) ==
  { c \in S : \A d \in S : cr[c].last_used_at <= cr[d].last_used_at }

\* a selection that gives up when every candidate is in cooldown
PickCredentialFailClosed(cr, pm, user_id, user_has_public_creds, model, exclude_ids, mode, t) ==
  LET credentials == Candidates(cr, pm, user_id, user_has_public_creds,
                                model, exclude_ids, mode)
      available_credentials ==
        { c \in credentials :
            ~ is_credential_in_cd(cr[c], get_model_group(model), t) }
  IN  IF available_credentials = {} THEN {NoCred}
      ELSE FirstByLastUsed(cr, available_credentials)

\* the credentials get_available_credential may pick (NoCred when it returns None)
PickCredential(cr, pm, user_id, user_has_public_creds, model, exclude_ids, mode, t) ==
  LET credentials == Candidates(cr, pm, user_id, user_has_public_creds,
                                model, exclude_ids, mode)
      available_credentials ==
        { c \in credentials :
            ~ is_credential_in_cd(cr[c], get_model_group(model), t) }
  IN  IF credentials = {} THEN {NoCred}
      ELSE IF available_credentials = {} THEN FirstByLastUsed(cr, credentials)
      ELSE FirstByLastUsed(cr, available_credentials)

\* an update that stamps every model group
StampCredentialAllGroups(cr, c, model, t) ==
  [cr EXCEPT ![c] =
    [@ EXCEPT !.last_used_at = t, !.total_requests = @ + 1,
              !.last_used_30 = t, !.last_used_pro = t, !.last_used_flash = t]]

\* the update get_available_credential commits for the credential it returns
StampCredential(cr, c, model, t) ==
  LET g == get_model_group(model)
  IN  [cr EXCEPT ![c] =
        [@ EXCEPT !.last_used_at = t,
                  !.total_requests = @ + 1,
                  !.last_used_30 = IF g = "30" THEN t ELSE @,
                  !.last_used_pro = IF g = "pro" THEN t ELSE @,
                  !.last_used_flash = IF g \notin {"30", "pro"} THEN t ELSE @]]

\* ---------------------------------------------------------------- upstream results
\* status 0: the call raised without an HTTP status (network error)
Outcomes ==
  { [status |-> 200, body |-> "ok", retry_after |-> NoTime],
    [status |-> 429, body |-> "RESOURCE_EXHAUSTED", retry_after |-> NoTime],
    [status |-> 429, body |-> "RESOURCE_EXHAUSTED", retry_after |-> RetryAfter],
    [status |-> 400, body |-> "invalid argument", retry_after |-> NoTime],
    [status |-> 403, body |-> "PERMISSION_DENIED", retry_after |-> NoTime],
    [status |-> 403, body |-> "denied on project 1500", retry_after |-> NoTime],
    [status |-> 0, body |-> "timeout", retry_after |-> NoTime] }

StatusText(status) ==
  IF status = 429 THEN "429" ELSE IF status = 400 THEN "400"
  ELSE IF status = 403 THEN "403" ELSE IF status = 500 THEN "500"
  ELSE "200"

\* the substrings the handlers look for that occur in a response body
BodySubstrings(body) ==
  IF body = "RESOURCE_EXHAUSTED" THEN {"RESOURCE_EXHAUSTED"}
  ELSE IF body = "PERMISSION_DENIED" THEN {"PERMISSION_DENIED"}
  ELSE IF body = "denied on project 1500" THEN {"500"}
  ELSE IF body = "timeout" THEN {"timeout"}
  ELSE {}

\* str(e) of the exception the client raises: "API Error <status>: <body>",
\* or the text of the network error
ErrorSubstrings(o) ==
  IF o.status = 0 THEN BodySubstrings(o.body)
  ELSE {StatusText(o.status)} \cup BodySubstrings(o.body)

extract_status_code(o) ==
  IF o.status >= 400 /\ o.status < 600 THEN o.status ELSE DefaultStatus

IsAuthError(subs) == subs \cap {"401", "403", "PERMISSION_DENIED"} # {}

RetryMarkersChat ==
  {"404", "500", "502", "503", "504", "429", "RESOURCE_EXHAUSTED", "NOT_FOUND",
   "ECONNRESET", "socket hang up", "ConnectionReset", "Connection reset",
   "ETIMEDOUT", "ECONNREFUSED", "Gateway Timeout", "timeout"}

should_retry_chat(subs) == subs \cap RetryMarkersChat # {}

classify_error_simple(status) ==
  IF status = 429 THEN "RATE_LIMIT"
  ELSE IF status \in {401, 403} THEN "AUTH_ERROR"
  ELSE IF status >= 500 THEN "UPSTREAM_5XX"
  ELSE "UNKNOWN"

\* ---------------------------------------------------------------- failure handling
mark_credential_error(cr, c) ==
  [cr EXCEPT ![c].failed_requests = @ + 1]

\* no lower limit
Max0Unlimited(n) == n

Max0(n) == IF n < 0 THEN 0 ELSE n

RewardOf(cred) ==
  IF cred.model_tier = "3" THEN quota_flash + quota_25pro + quota_30pro
  ELSE quota_flash + quota_25pro

\* handle_credential_failure: the credentials table afterwards
FailureCreds(cr, c, subs) ==
  LET cr1 == mark_credential_error(cr, c)
  IN  IF IsAuthError(subs) /\ cr1[c].is_active
        THEN [cr1 EXCEPT ![c].is_active = FALSE]
        ELSE cr1

\* handle_credential_failure: the users table afterwards
FailureUsers(cr, us, c, subs) ==
  IF /\ IsAuthError(subs)
     /\ cr[c].is_active
     /\ cr[c].is_public
     /\ cr[c].user_id \in Users
  THEN [us EXCEPT ![cr[c].user_id].bonus_quota = Max0(@ - RewardOf(cr[c]))]
  ELSE us

\* parse_429_retry_after: the Retry-After header when present; none of the
\* bodies above carries a delay
parse_429_retry_after(o) ==
  IF o.retry_after # NoTime THEN o.retry_after ELSE 0

\* handle_429_rate_limit: the delay it returns for a parsed value
cd_seconds_of(parsed) == IF parsed <= 0 THEN Default429Delay ELSE parsed

\* handle_429_rate_limit: the credentials table afterwards, for a parsed value
RateLimitCredsParsed(cr, c, model, parsed, t) ==
  LET cd_seconds == cd_seconds_of(parsed)
      g == get_model_group(model)
      config_cd == get_cd_seconds(g)
      last_used == IF config_cd > 0 THEN t + cd_seconds - config_cd ELSE t
  IN  [cr EXCEPT ![c] =
        [@ EXCEPT !.last_used_30 = IF g = "30" THEN last_used ELSE @,
                  !.last_used_pro = IF g = "pro" THEN last_used ELSE @,
                  !.last_used_flash = IF g \notin {"30", "pro"} THEN last_used ELSE @,
                  !.failed_requests = @ + 1]]

\* handle_429_rate_limit: the credentials table afterwards
RateLimitCreds(cr, c, model, o, t) ==
  RateLimitCredsParsed(cr, c, model, parse_429_retry_after(o), t)

\* ---------------------------------------------------------------- tokens
is_token_expired(cred, t) ==
  IF ~ cred.api_key THEN TRUE
  ELSE IF cred.token_expiry # NoTime THEN cred.token_expiry - 300 <= t
  ELSE TRUE

\* get_access_token: whether a token comes back (refresh_ok: the OAuth
\* endpoint answers with an access token)
TokenObtained(cred, refresh_ok, t) ==
  IF is_token_expired(cred, t) THEN refresh_ok \/ cred.api_key ELSE TRUE

\* get_access_token: the credentials table afterwards
TokenCreds(cr, c, refresh_ok, t) ==
  IF is_token_expired(cr[c], t) /\ refresh_ok
    THEN [cr EXCEPT ![c].api_key = TRUE]
    ELSE cr

\* get_access_token_and_project: the project id that comes back (fetched:
\* what project discovery returns, "" when it fails)
ProjectObtained(cred, fetched) ==
  IF QueryProject(cred) THEN cred.project_id ELSE fetched

\* get_access_token_and_project: the credentials table afterwards
ProjectCreds(cr, c, fetched) ==
  IF ~ QueryProject(cr[c]) /\ fetched # ""
    THEN [cr EXCEPT ![c].project_id = fetched]
    ELSE cr

\* ---------------------------------------------------------------- usage log
NewLog(user_id, model, endpoint, t) ==
  [user_id |-> user_id, model |-> model, endpoint |-> endpoint, status_code |-> 0,
   latency_ms |-> 0, credential_id |-> NoCred, error_type |-> "",
   retry_count |-> 0, created_at |-> t]

\* the writes that finalise a row, the one of retry_count left out
SetLogNoRetryCount(row, status, latency, c, error_type, retry_count) ==
  [row EXCEPT !.status_code = status, !.latency_ms = latency,
              !.credential_id = c, !.error_type = error_type]

\* the writes that finalise a row
SetLog(row, status, latency, c, error_type, retry_count) ==
  [row EXCEPT !.status_code = status, !.latency_ms = latency,
              !.credential_id = c, !.error_type = error_type,
              !.retry_count = retry_count]

\* rows of one user created in the last minute
current_rpm(lg, user_id, t) ==
  Cardinality({ i \in 1 .. Len(lg) :
                  lg[i].user_id = user_id /\ lg[i].created_at >= t - RpmWindow })

\* one limit for every user
max_rpm_flat(user_has_public) == base_rpm

max_rpm(user_has_public) ==
  IF user_has_public THEN contributor_rpm ELSE base_rpm

\* the reset of the daily quota before t: 07:00 UTC of the day of t, or of the
\* day before when t is earlier than that
start_of_day(t) ==
  LET reset_time_utc == t - (t % DaySeconds) + ResetSecond
  IN  IF t < reset_time_utc THEN reset_time_utc - DaySeconds ELSE reset_time_utc

\* UsageLog.model.like('%pro%') and UsageLog.model.like('%3%')
LikePro(model) == \E i \in 1 .. Len(model) : model[i] \in {"pro"}
Like3(model) == \E i \in 1 .. Len(model) : model[i] \in {"3"}

\* the quota class of the requested model: the rows that count against it
model_filter(body_model, has_30_access, row_model) ==
  IF get_required_tier(body_model) = "3" THEN LikePro(row_model) \/ Like3(row_model)
  ELSE IF HasPro(body_model)
    THEN IF has_30_access THEN LikePro(row_model) \/ Like3(row_model)
         ELSE LikePro(row_model)
  ELSE ~ LikePro(row_model) /\ ~ Like3(row_model)

\* rows of one user since the last reset
total_usage(lg, user_id, t) ==
  Cardinality({ i \in 1 .. Len(lg) :
                  lg[i].user_id = user_id /\ lg[i].created_at >= start_of_day(t) })

\* a gate that lets every request pass
AuthGateOpen(cr, us, lg, user_id, body_model, t) == 0

\* get_user_from_api_key for a POST of an active user with a valid key: the
\* status of the HTTPException it raises, 0 when the request passes
AuthGate(cr, us, lg, user_id, body_model, t) ==
  LET own == { c \in CredIds : cr[c].user_id = user_id /\ cr[c].is_active }
      total_cred_count == Cardinality(own)
      cred_30_count == Cardinality({ c \in own : cr[c].model_tier = "3" })
      has_credential == total_cred_count > 0
      user_quota_flash ==
        IF us[user_id].quota_flash > 0 THEN us[user_id].quota_flash
        ELSE IF has_credential THEN total_cred_count * quota_flash
        ELSE no_cred_quota_flash
      user_quota_pro ==
        IF us[user_id].quota_25pro > 0 THEN us[user_id].quota_25pro
        ELSE IF cred_30_count > 0 THEN cred_30_count * quota_30pro
        ELSE IF has_credential THEN total_cred_count * quota_25pro
        ELSE no_cred_quota_25pro
      has_30_access == cred_30_count > 0 \/ us[user_id].quota_30pro > 0
      quota_limit ==
        IF get_required_tier(body_model) = "3" \/ HasPro(body_model)
          THEN user_quota_pro ELSE user_quota_flash
      current_usage ==
        Cardinality({ i \in 1 .. Len(lg) :
                        /\ lg[i].user_id = user_id
                        /\ lg[i].created_at >= start_of_day(t)
                        /\ model_filter(body_model, has_30_access, lg[i].model) })
  IN  IF get_required_tier(body_model) = "3" /\ ~ has_30_access THEN 403
      ELSE IF quota_limit > 0 \/ has_credential
        THEN IF quota_limit > 0 /\ current_usage >= quota_limit THEN 429
             ELSE IF has_credential
                     /\ total_usage(lg, user_id, t) >= us[user_id].daily_quota
               THEN 429
             ELSE 0
      ELSE 0

\* ---------------------------------------------------------------- requests
NewRequest ==
  [pc |-> "new", endpoint |-> "", stream |-> FALSE, user |-> 0,
   model |-> <<>>, mode |-> "", user_has_public |-> FALSE,
   tried |-> {}, credential |-> NoCred, client_cred |-> NoCred,
   retry_attempt |-> 0, log_id |-> 0, start_time |-> 0,
   status |-> 0, result |-> "",
   used |-> <<>>, seen |-> <<>>, incs |-> [c \in CredIds |-> 0],
   day_seen |-> NoTime, rpm_seen |-> NoTime, rpm_rows |-> 0,
   inflight_seen |-> 0,
   frames |-> <<>>, task |-> "none",
   gen_config |-> [topK |-> 0 - 1000000, maxOutputTokens |-> 0 - 1000000],
   request_body |-> [topK |-> 0 - 1000000, maxOutputTokens |-> 0 - 1000000]]

\* requests are numbered in arrival order and served one after the other
CanStart(r) ==
  /\ reqs[r].pc = "new"
  /\ \A q \in ReqIds : q < r => reqs[q].pc = "done"

Bump(incs, c) == [incs EXCEPT ![c] = @ + 1]

\* a request that ends before any credential is acquired
Rejected(rq, status) ==
  [rq EXCEPT !.pc = "done", !.status = status, !.result = "error"]

\* the credentials a pool starts from: owner, variant, project, tier, public
Template(u, kind) ==
  IF kind = "private25" THEN
    [user_id |-> u, api_type |-> "geminicli", project_id |-> "p1",
     model_tier |-> "2.5", is_public |-> FALSE]
  ELSE IF kind = "public3" THEN
    [user_id |-> u, api_type |-> "geminicli", project_id |-> "p1",
     model_tier |-> "3", is_public |-> TRUE]
  ELSE IF kind = "agy3" THEN
    [user_id |-> u, api_type |-> "antigravity", project_id |-> "p1",
     model_tier |-> "3", is_public |-> TRUE]
  ELSE
    [user_id |-> u, api_type |-> "geminicli",
     project_id |-> IF u = 1 THEN "" ELSE "NULL",
     model_tier |-> "3", is_public |-> TRUE]

TemplateKinds == <<"private25", "public3", "agy3", "noproject">>

\* template number k: kind by owner
TemplateAt(k) ==
  Template(((k - 1) % Cardinality(Users)) + 1,
           TemplateKinds[((k - 1) \div Cardinality(Users)) + 1])

FreshCredential(k) ==
  [user_id |-> k.user_id, api_type |-> k.api_type, project_id |-> k.project_id,
   model_tier |-> k.model_tier, is_public |-> k.is_public, is_active |-> TRUE,
   api_key |-> FALSE, token_expiry |-> NoTime,
   last_used_at |-> NoTime, last_used_flash |-> NoTime,
   last_used_pro |-> NoTime, last_used_30 |-> NoTime,
   total_requests |-> 0, failed_requests |-> 0]

\* the row of a request served before the last minute
EarlierLog ==
  SetLog(NewLog(1, DefaultModel, "chat", 0 - RpmWindow - 1), 200, 0, NoCred, "", 0)

\* Pools of credentials that differ pairwise in owner or kind, up to
\* renumbering of the credentials: the rows are listed in template order.
Init ==
  /\ now = 0
  /\ pool_mode \in PoolModes
  /\ \E f \in [CredIds -> 1 .. (Cardinality(Users) * Len(TemplateKinds))] :
       /\ \A c, d \in CredIds : c < d => f[c] < f[d]
       /\ creds = [c \in CredIds |-> FreshCredential(TemplateAt(f[c]))]
  /\ users = [u \in Users |->
               [is_admin |-> (u = 2),
                quota_flash |-> 0, quota_25pro |-> 0,
                quota_30pro |-> IF u >= 2 THEN 1 ELSE 0,
                daily_quota |-> DailyQuota,
                bonus_quota |-> InitialBonus]]
  /\ logs = <<EarlierLog>>
  /\ reqs = [r \in ReqIds |-> NewRequest]
  /\ pool_calls = 0
  /\ last_call = NoCall
  /\ disabled = {}

\* the credentials a step of failure handling disables
NewlyDisabled == { c \in CredIds : creds[c].is_active /\ ~ creds'[c].is_active }

Tick ==
  /\ now < MaxTime
  /\ now' = now + 1
  /\ UNCHANGED <<pool_mode, creds, users, logs, reqs, pool_calls, last_call, disabled>>

\* ---------------------------------------------------------------- chat: entry
\* The handler from the RPM check to the creation of the upstream client:
\* RPM check, placeholder row, first acquisition, token (and, for
\* Antigravity, project id).
ChatEntry(r, u, model, mode, stream, refresh_ok, fetched) ==
  LET user_has_public == check_user_has_public_creds(creds, u, mode)
      rq == [reqs[r] EXCEPT !.endpoint = "chat", !.stream = stream, !.user = u,
                            !.model = model, !.mode = mode,
                            !.user_has_public = user_has_public,
                            !.start_time = now]
      log_id == Len(logs) + 1
      placeholder == NewLog(u, model, "chat", now)
  IN  IF ~ users[u].is_admin /\ current_rpm(logs, u, now) >= max_rpm(user_has_public)
      THEN /\ reqs' = [reqs EXCEPT ![r] = Rejected(rq, 429)]
           /\ UNCHANGED <<creds, users, logs>>
      ELSE
        \E pick \in PickCredential(creds, pool_mode, u, user_has_public,
                                   model, {}, mode, now) :
          IF pick = NoCred
          THEN /\ logs' = Append(logs, SetLog(placeholder, 503, 0, NoCred,
                                              "NO_CREDENTIAL", 0))
               /\ reqs' = [reqs EXCEPT ![r] =
                    [rq EXCEPT !.pc = "done", !.status = 503, !.result = "error",
                               !.log_id = log_id]]
               /\ UNCHANGED <<creds, users>>
          ELSE
            LET cr1 == StampCredential(creds, pick, model, now)
                got_token == TokenObtained(cr1[pick], refresh_ok, now)
                cr2 == TokenCreds(cr1, pick, refresh_ok, now)
                project_id == IF mode = "antigravity"
                                THEN ProjectObtained(cr2[pick], fetched)
                                ELSE cr2[pick].project_id
                cr3 == IF mode = "antigravity"
                         THEN ProjectCreds(cr2, pick, fetched) ELSE cr2
                rq1 == [rq EXCEPT !.log_id = log_id, !.tried = {pick},
                                  !.credential = pick,
                                  !.incs = Bump(@, pick)]
            IN  IF ~ got_token
                THEN /\ creds' = mark_credential_error(cr2, pick)
                     /\ logs' = Append(logs, SetLog(placeholder, 503, 0, pick,
                                                    "TOKEN_ERROR", 0))
                     /\ reqs' = [reqs EXCEPT ![r] =
                          [rq1 EXCEPT !.pc = "done", !.status = 503,
                                      !.result = "error"]]
                     /\ UNCHANGED users
                ELSE IF mode = "antigravity" /\ project_id \in {"NULL", ""}
                THEN /\ creds' = mark_credential_error(cr3, pick)
                     /\ logs' = Append(logs, SetLog(placeholder, 503, 0, pick,
                                                    "CONFIG_ERROR", 0))
                     /\ reqs' = [reqs EXCEPT ![r] =
                          [rq1 EXCEPT !.pc = "done", !.status = 503,
                                      !.result = "error"]]
                     /\ UNCHANGED users
                ELSE /\ creds' = cr3
                     /\ logs' = Append(logs, placeholder)
                     /\ reqs' = [reqs EXCEPT ![r] =
                          [rq1 EXCEPT !.pc = "calling", !.client_cred = pick]]
                     /\ UNCHANGED users

\* the streaming prefixes of a model name, as tokens: "fake_stream/" and
\* "anti_truncation/" stand for the two prefixes the handler recognises
StreamPrefixes == {"fake_stream/", "anti_truncation/"}

\* stream_prefix and model_without_stream of the handler
stream_prefix(raw) ==
  IF Len(raw) > 0 /\ Head(raw) \in StreamPrefixes THEN <<Head(raw)>> ELSE <<>>

model_without_stream(raw) ==
  IF Len(raw) > 0 /\ Head(raw) \in StreamPrefixes THEN Tail(raw) ELSE raw

\* the test applied to the whole model name
is_antigravity_whole(raw) == Len(raw) > 0 /\ Head(raw) = "agy"

\* model_without_stream.startswith("agy-")
is_antigravity(raw) ==
  Len(model_without_stream(raw)) > 0 /\ Head(model_without_stream(raw)) = "agy"

\* the model name the handlers work with: variant prefix removed, streaming
\* prefix kept
StripVariant(raw) ==
  LET rest == model_without_stream(raw)
  IN  stream_prefix(raw)
        \o (IF Len(rest) > 0 /\ Head(rest) \in {"agy", "gcli"} THEN Tail(rest) ELSE rest)

\* client.is_fake_streaming(model)
is_fake_streaming(model) == Len(model) > 0 /\ Head(model) = "fake_stream/"

\* POST /v1/chat/completions with a gcli- or unprefixed model
chat_completions(r, u, raw, stream, refresh_ok) ==
  /\ CanStart(r)
  /\ ~ is_antigravity(raw)
  /\ IF AuthGate(creds, users, logs, u, raw, now) # 0
       THEN /\ reqs' = [reqs EXCEPT ![r] =
                 Rejected([@ EXCEPT !.endpoint = "chat", !.user = u,
                                     !.model = StripVariant(raw)],
                          AuthGate(creds, users, logs, u, raw, now))]
            /\ UNCHANGED <<creds, users, logs>>
       ELSE ChatEntry(r, u, StripVariant(raw), "geminicli", stream, refresh_ok, "")
  /\ UNCHANGED <<now, pool_mode, pool_calls, last_call, disabled>>

\* POST /v1/chat/completions with an agy- model: handed to the Antigravity handler
agy_chat_completions(r, u, raw, stream, refresh_ok, fetched) ==
  /\ CanStart(r)
  /\ is_antigravity(raw)
  /\ IF AuthGate(creds, users, logs, u, raw, now) # 0
       THEN /\ reqs' = [reqs EXCEPT ![r] =
                 Rejected([@ EXCEPT !.endpoint = "chat", !.user = u,
                                     !.model = StripVariant(raw)],
                          AuthGate(creds, users, logs, u, raw, now))]
            /\ UNCHANGED <<creds, users, logs>>
       ELSE ChatEntry(r, u, StripVariant(raw), "antigravity", stream,
                      refresh_ok, fetched)
  /\ UNCHANGED <<now, pool_mode, pool_calls, last_call, disabled>>

\* ---------------------------------------------------------------- retry loops
\* the loop with no limit on its passes
CanRetryAlways(retry_attempt) == TRUE

\* retry_attempt < max_retries, with max_retries = settings.error_retry_count:
\* the loop body runs for retry_attempt in range(max_retries + 1)
CanRetry(retry_attempt) == retry_attempt < error_retry_count

\* ---------------------------------------------------------------- chat: non-stream
\* One pass of the loop of handle_non_stream: the upstream call with the
\* current client, then the success branch or the except branch.
handle_non_stream(r, o, refresh_ok, fetched) ==
  LET rq == reqs[r]
      rq0 == [rq EXCEPT !.used = Append(@, rq.client_cred),
                        !.seen = Append(@, o.status)]
      latency == (now - rq.start_time) * 1000
      subs == ErrorSubstrings(o)
      cr1 == FailureCreds(creds, rq.credential, subs)
      us1 == FailureUsers(creds, users, rq.credential, subs)
  IN
  /\ rq.pc = "calling" /\ rq.endpoint = "chat" /\ ~ rq.stream
  /\ UNCHANGED <<now, pool_mode, pool_calls, last_call>>
  /\ IF o.status = 200
     THEN /\ logs' = [logs EXCEPT ![rq.log_id] =
                SetLog(@, 200, latency, rq.credential, "", rq.retry_attempt)]
          /\ creds' = [creds EXCEPT ![rq.credential] =
                [@ EXCEPT !.total_requests = @ + 1, !.last_used_at = now]]
          /\ reqs' = [reqs EXCEPT ![r] =
                [rq0 EXCEPT !.pc = "done", !.status = 200, !.result = "success",
                            !.incs = Bump(@, rq.credential)]]
          /\ UNCHANGED users
     ELSE IF should_retry_chat(subs) /\ CanRetry(rq.retry_attempt)
     THEN
       \E pick \in PickCredential(cr1, pool_mode, rq.user, rq.user_has_public,
                                  rq.model, rq.tried, rq.mode, now) :
         IF pick = NoCred
         THEN \* break: falls out of the loop to the closing raise
              /\ creds' = cr1
              /\ users' = us1
              /\ reqs' = [reqs EXCEPT ![r] =
                    [rq0 EXCEPT !.pc = "done", !.status = 503, !.result = "error",
                                !.credential = NoCred]]
              /\ UNCHANGED logs
         ELSE
           LET cr2 == StampCredential(cr1, pick, rq.model, now)
               got_token == TokenObtained(cr2[pick], refresh_ok, now)
               cr3 == TokenCreds(cr2, pick, refresh_ok, now)
               project_id == IF rq.mode = "antigravity"
                               THEN ProjectObtained(cr3[pick], fetched)
                               ELSE cr3[pick].project_id
               cr4 == IF rq.mode = "antigravity" /\ got_token
                        THEN ProjectCreds(cr3, pick, fetched) ELSE cr3
               switched == IF rq.mode = "antigravity"
                             THEN got_token /\ project_id \notin {"NULL", ""}
                             ELSE got_token
           IN  /\ creds' = cr4
               /\ users' = us1
               /\ reqs' = [reqs EXCEPT ![r] =
                     [rq0 EXCEPT !.credential = pick,
                                 !.tried = @ \cup {pick},
                                 !.incs = Bump(@, pick),
                                 !.client_cred = IF switched THEN pick ELSE @,
                                 !.retry_attempt = @ + 1]]
               /\ UNCHANGED logs
     ELSE /\ creds' = cr1
          /\ users' = us1
          /\ logs' = [logs EXCEPT ![rq.log_id] =
                SetLog(@, extract_status_code(o), latency, rq.credential,
                       classify_error_simple(extract_status_code(o)),
                       rq.retry_attempt)]
          /\ reqs' = [reqs EXCEPT ![r] =
                [rq0 EXCEPT !.pc = "done", !.status = extract_status_code(o),
                            !.result = "error"]]
  /\ disabled' = disabled \cup NewlyDisabled

\* ---------------------------------------------------------------- chat: stream
\* an update of usage_logs without its WHERE id = placeholder_log_id
SaveLogRowsUnkeyed(lg, log_id, status, latency, cred_id, retry_count) ==
  [i \in DOMAIN lg |->
     SetLog(lg[i], status, latency, cred_id,
            IF status # 200 THEN "ERROR" ELSE "", retry_count)]

\* save_log_background: the placeholder row afterwards
SaveLogRows(lg, log_id, status, latency, cred_id, retry_count) ==
  [lg EXCEPT ![log_id] =
     SetLog(@, status, latency, cred_id,
            IF status # 200 THEN classify_error_simple(status) ELSE "",
            retry_count)]

\* save_log_background: the credentials table afterwards
SaveLogCreds(cr, cred_id, t) ==
  IF cred_id # NoCred
    THEN [cr EXCEPT ![cred_id] =
            [@ EXCEPT !.total_requests = @ + 1, !.last_used_at = t]]
    ELSE cr

\* One pass of the loop of stream_generator_with_retry; credential holds
\* current_cred_id.
stream_generator_with_retry(r, o, refresh_ok, fetched) ==
  LET rq == reqs[r]
      rq0 == [rq EXCEPT !.used = Append(@, rq.client_cred),
                        !.seen = Append(@, o.status)]
      latency == (now - rq.start_time) * 1000
      subs == ErrorSubstrings(o)
      cr1 == FailureCreds(creds, rq.credential, subs)
      us1 == FailureUsers(creds, users, rq.credential, subs)
      retrying == should_retry_chat(subs) /\ CanRetry(rq.retry_attempt)
  IN
  /\ rq.pc = "calling" /\ rq.endpoint = "chat" /\ rq.stream
  /\ ~ is_fake_streaming(rq.model)
  /\ UNCHANGED <<now, pool_mode, pool_calls, last_call>>
  /\ IF o.status = 200
     THEN /\ logs' = SaveLogRows(logs, rq.log_id, 200, latency, rq.credential,
                                 rq.retry_attempt)
          /\ creds' = SaveLogCreds(creds, rq.credential, now)
          /\ reqs' = [reqs EXCEPT ![r] =
                [rq0 EXCEPT !.pc = "done", !.status = 200, !.result = "success",
                            !.incs = Bump(@, rq.credential)]]
          /\ UNCHANGED users
     ELSE
       \E pick \in IF retrying
                     THEN PickCredential(cr1, pool_mode, rq.user, rq.user_has_public,
                                         rq.model, rq.tried, rq.mode, now)
                     ELSE {NoCred} :
         LET cr2 == IF pick # NoCred THEN StampCredential(cr1, pick, rq.model, now)
                    ELSE cr1
             got_token == pick # NoCred /\ TokenObtained(cr2[pick], refresh_ok, now)
             cr3 == IF pick # NoCred THEN TokenCreds(cr2, pick, refresh_ok, now)
                    ELSE cr2
             cr4 == IF rq.mode = "antigravity" /\ got_token
                      THEN ProjectCreds(cr3, pick, fetched) ELSE cr3
             switched == IF rq.mode = "antigravity"
                           THEN got_token
                                /\ ProjectObtained(cr3[pick], fetched) \notin {"NULL", ""}
                           ELSE got_token
             rq1 == IF pick # NoCred
                      THEN [rq0 EXCEPT !.tried = @ \cup {pick}, !.incs = Bump(@, pick)]
                      ELSE rq0
         IN  IF switched
             THEN /\ creds' = cr4
                  /\ users' = us1
                  /\ reqs' = [reqs EXCEPT ![r] =
                        [rq1 EXCEPT !.credential = pick, !.client_cred = pick,
                                    !.retry_attempt = @ + 1]]
                  /\ UNCHANGED logs
             ELSE /\ creds' = SaveLogCreds(cr4, rq.credential, now)
                  /\ users' = us1
                  /\ logs' = SaveLogRows(logs, rq.log_id, extract_status_code(o),
                                         latency, rq.credential, rq.retry_attempt)
                  /\ reqs' = [reqs EXCEPT ![r] =
                        [rq1 EXCEPT !.pc = "done", !.status = 200, !.result = "error",
                                    !.incs = Bump(@, rq.credential)]]
  /\ disabled' = disabled \cup NewlyDisabled

\* ---------------------------------------------------------------- native generateContent
NativeModels == { <<"gemini", "2.5", "pro">>, <<"Gemini", "3", "pro", "preview">> }

should_retry_native_status(status) == status \in {429, 500, 503, 404}

RetryMarkersNative ==
  {"429", "500", "503", "RESOURCE_EXHAUSTED", "ECONNRESET", "ETIMEDOUT"}

should_retry_native_error(subs) == subs \cap RetryMarkersNative # {}

\* POST /v1beta/models/{model}:generateContent, up to the retry loop
gemini_generate_content(r, u, model) ==
  LET user_has_public == check_user_has_public_creds(creds, u, "geminicli")
      rq == [reqs[r] EXCEPT !.endpoint = "native", !.user = u, !.model = model,
                            !.mode = "geminicli",
                            !.user_has_public = user_has_public,
                            !.start_time = now]
  IN
  /\ CanStart(r)
  /\ UNCHANGED <<now, pool_mode, creds, users, logs, pool_calls, last_call, disabled>>
  /\ IF AuthGate(creds, users, logs, u, DefaultModel, now) # 0
     THEN reqs' = [reqs EXCEPT ![r] =
                     Rejected(rq, AuthGate(creds, users, logs, u, DefaultModel, now))]
     ELSE IF ~ users[u].is_admin
             /\ current_rpm(logs, u, now) >= max_rpm(user_has_public)
     THEN reqs' = [reqs EXCEPT ![r] = Rejected(rq, 429)]
     ELSE reqs' = [reqs EXCEPT ![r] = [rq EXCEPT !.pc = "calling"]]

\* One pass of the retry loop of gemini_generate_content.
gemini_generate_content_attempt(r, o, refresh_ok) ==
  LET rq == reqs[r]
      latency == (now - rq.start_time) * 1000
      last_attempt == ~ CanRetry(rq.retry_attempt)
  IN
  /\ rq.pc = "calling" /\ rq.endpoint = "native"
  /\ UNCHANGED <<now, pool_mode, pool_calls, last_call>>
  /\ \E pick \in PickCredential(creds, pool_mode, rq.user, rq.user_has_public,
                                rq.model, rq.tried, rq.mode, now) :
       IF pick = NoCred
       THEN /\ reqs' = [reqs EXCEPT ![r] =
                  [rq EXCEPT !.pc = "done", !.status = 503, !.result = "error",
                             !.credential = NoCred]]
            /\ UNCHANGED <<creds, users, logs>>
       ELSE
         LET cr1 == StampCredential(creds, pick, rq.model, now)
             got_token == TokenObtained(cr1[pick], refresh_ok, now)
             cr2 == TokenCreds(cr1, pick, refresh_ok, now)
             rq1 == [rq EXCEPT !.credential = pick, !.tried = @ \cup {pick},
                               !.incs = Bump(@, pick)]
             rq2 == [rq1 EXCEPT !.used = Append(@, pick),
                                !.seen = Append(@, o.status), !.client_cred = pick,
                                !.incs = Bump(@, pick)]
             subs == ErrorSubstrings(o)
             \* the credentials table after the failure handling of this attempt
             cr3 == IF o.status = 0 THEN FailureCreds(cr2, pick, subs)
                    ELSE IF o.status \in {401, 403}
                      THEN FailureCreds(cr2, pick, subs)
                    ELSE IF o.status = 429
                      THEN RateLimitCreds(cr2, pick, rq.model, o, now)
                    ELSE cr2
             us3 == IF o.status = 0 \/ o.status \in {401, 403}
                      THEN FailureUsers(cr2, users, pick, subs)
                      ELSE users
             status == extract_status_code(o)
             retrying == /\ ~ last_attempt
                         /\ IF o.status = 0 THEN should_retry_native_error(subs)
                            ELSE should_retry_native_status(o.status)
             row == SetLog(NewLog(rq.user, rq.model, "native", now),
                           IF o.status = 200 THEN 200 ELSE status, latency, pick,
                           IF o.status = 200 THEN ""
                           ELSE classify_error_simple(status), 0)
         IN  IF ~ got_token
             THEN \* continue without a call; the loop ends after the last pass
                  /\ creds' = cr2
                  /\ reqs' = [reqs EXCEPT ![r] =
                        IF last_attempt
                          THEN [rq1 EXCEPT !.pc = "done", !.status = 503,
                                           !.result = "error"]
                          ELSE [rq1 EXCEPT !.retry_attempt = @ + 1]]
                  /\ UNCHANGED <<users, logs>>
             ELSE IF o.status = 200
             THEN /\ creds' = SaveLogCreds(cr2, pick, now)
                  /\ logs' = Append(logs, row)
                  /\ reqs' = [reqs EXCEPT ![r] =
                        [rq2 EXCEPT !.pc = "done", !.status = 200,
                                    !.result = "success"]]
                  /\ UNCHANGED users
             ELSE /\ creds' = SaveLogCreds(cr3, pick, now)
                  /\ users' = us3
                  /\ logs' = Append(logs, row)
                  /\ reqs' = [reqs EXCEPT ![r] =
                        IF retrying
                          THEN [rq2 EXCEPT !.retry_attempt = @ + 1]
                          ELSE [rq2 EXCEPT !.pc = "done", !.status = status,
                                           !.result = "error"]]
  /\ disabled' = disabled \cup NewlyDisabled

\* ---------------------------------------------------------------- direct calls of the pool
PoolModels == { <<"gemini", "2.5", "flash">>, <<"Gemini", "3", "pro", "preview">> }

\* the exclude_ids of a direct call: none, or the credential of the last call
\* (what a caller that retries passes)
PoolExcludes == {{}, {last_call.cred} \ {NoCred}}

\* the errors of a direct call: a rate limit and an authorisation failure
PoolErrors ==
  { o \in Outcomes : /\ o.body \in {"RESOURCE_EXHAUSTED", "PERMISSION_DENIED"}
                     /\ o.retry_after = NoTime }

\* one call of CredentialPool.get_available_credential; last_call keeps the
\* arguments, the result, whether the result was in cooldown for the group
\* of the model, and how many rows the query returned
AcquireCall(user_id, user_has_public_creds, model, exclude_ids, mode) ==
  /\ \E pick \in PickCredential(creds, pool_mode, user_id, user_has_public_creds,
                                model, exclude_ids, mode, now) :
       /\ creds' = IF pick = NoCred THEN creds
                   ELSE StampCredential(creds, pick, model, now)
       /\ last_call' =
            [NoCall EXCEPT
               !.op = "acquire", !.cred = pick, !.user_id = user_id,
               !.model = model, !.mode = mode,
               !.in_cd = pick # NoCred
                         /\ is_credential_in_cd(creds[pick], get_model_group(model), now),
               !.rivals = Cardinality(Candidates(creds, pool_mode, user_id,
                                                 user_has_public_creds, model,
                                                 exclude_ids, mode))]
  /\ pool_calls' = pool_calls + 1
  /\ UNCHANGED <<now, pool_mode, users, logs, reqs, disabled>>

\* CredentialPool.get_available_credential called with any arguments
get_available_credential(user_id, user_has_public_creds, model, exclude_ids, mode) ==
  /\ pool_calls < MaxPoolCalls
  /\ AcquireCall(user_id, user_has_public_creds, model, exclude_ids, mode)

\* CredentialPool.handle_credential_failure called for any credential and error
handle_credential_failure(c, o) ==
  /\ pool_calls < MaxPoolCalls
  /\ o.status # 200
  /\ creds' = FailureCreds(creds, c, ErrorSubstrings(o))
  /\ users' = FailureUsers(creds, users, c, ErrorSubstrings(o))
  /\ disabled' = disabled \cup NewlyDisabled
  /\ last_call' = [NoCall EXCEPT !.op = "failure", !.cred = c]
  /\ pool_calls' = pool_calls + 1
  /\ UNCHANGED <<now, pool_mode, logs, reqs>>

NextPool ==
  \/ \E u \in Users, flag \in BOOLEAN, model \in PoolModels,
        exclude_ids \in PoolExcludes, mode \in ApiTypes :
       get_available_credential(u, flag, model, exclude_ids, mode)
  \/ \E c \in CredIds, o \in PoolErrors : handle_credential_failure(c, o)

SpecPool == Init /\ [][NextPool]_vars

\* ---------------------------------------------------------------- rotation and cooldown
\* One user calling the pool again and again while time passes.
RotationModels == { <<"gemini", "2.5", "flash">>, <<"gemini", "2.5", "pro">> }

\* the public tier-3 credentials of user 1, the last ones disabled
InitRotation ==
  /\ now = 0
  /\ pool_mode = "full_shared"
  /\ \E active \in 0 .. NCreds :
       creds = [c \in CredIds |->
                  [FreshCredential(Template(1, "public3"))
                     EXCEPT !.is_active = (c <= active)]]
  /\ users = [u \in Users |->
               [is_admin |-> (u = 2),
                quota_flash |-> 0, quota_25pro |-> 0,
                quota_30pro |-> IF u >= 2 THEN 1 ELSE 0,
                daily_quota |-> DailyQuota,
                bonus_quota |-> InitialBonus]]
  /\ logs = <<EarlierLog>>
  /\ reqs = [r \in ReqIds |-> NewRequest]
  /\ pool_calls = 0
  /\ last_call = NoCall
  /\ disabled = {}

rotation_get_available_credential(model, exclude_ids) ==
  /\ pool_calls < MaxRotationCalls
  /\ AcquireCall(1, TRUE, model, exclude_ids, "geminicli")

NextRotation ==
  \/ Tick
  \/ \E model \in RotationModels, exclude_ids \in PoolExcludes :
       rotation_get_available_credential(model, exclude_ids)

SpecRotation == InitRotation /\ [][NextRotation]_vars

\* ---------------------------------------------------------------- access tokens
\* OAuth credentials with a refresh token, some with a stored access token;
\* nothing in the code writes token_expiry
InitToken ==
  /\ now = 0
  /\ pool_mode = "full_shared"
  /\ \E stored \in SUBSET CredIds :
       creds = [c \in CredIds |->
                  [FreshCredential(Template(1, "public3"))
                     EXCEPT !.api_key = (c \in stored)]]
  /\ users = [u \in Users |->
               [is_admin |-> (u = 2),
                quota_flash |-> 0, quota_25pro |-> 0,
                quota_30pro |-> IF u >= 2 THEN 1 ELSE 0,
                daily_quota |-> DailyQuota,
                bonus_quota |-> InitialBonus]]
  /\ logs = <<EarlierLog>>
  /\ reqs = [r \in ReqIds |-> NewRequest]
  /\ pool_calls = 0
  /\ last_call = NoCall
  /\ disabled = {}

\* CredentialPool.get_access_token called for a credential; last_call keeps
\* whether the OAuth endpoint was called and whether a new token was stored
get_access_token(c, refresh_ok) ==
  /\ pool_calls < MaxPoolCalls
  /\ creds' = TokenCreds(creds, c, refresh_ok, now)
  /\ last_call' = [NoCall EXCEPT
                     !.op = "token", !.cred = c,
                     !.refreshed = is_token_expired(creds[c], now),
                     !.stored = is_token_expired(creds[c], now) /\ refresh_ok]
  /\ pool_calls' = pool_calls + 1
  /\ UNCHANGED <<now, pool_mode, users, logs, reqs, disabled>>

NextToken ==
  \/ Tick
  \/ \E c \in CredIds, refresh_ok \in BOOLEAN : get_access_token(c, refresh_ok)

SpecToken == InitToken /\ [][NextToken]_vars

\* ---------------------------------------------------------------- fake streaming
\* An Antigravity request whose model carries the fake-streaming prefix:
\* the generator of the handler forwards the frames of
\* chat_completions_fake_stream, which runs the non-stream upstream call as a
\* task and polls it every two seconds.
MaxKeepalive == 2

FakeStreamModels ==
  { <<"fake_stream/", "agy", "gemini", "2.5", "flash">>,
    <<"fake_stream/", "agy", "gemini", "3", "flash">> }

\* how the upstream task ends: text parts, no text part, or an exception
TaskResults == {"text", "empty", "raised"}

InitFakeStream ==
  /\ now = 0
  /\ pool_mode = "full_shared"
  /\ creds = [c \in CredIds |-> FreshCredential(Template(1, "agy3"))]
  /\ users = [u \in Users |->
               [is_admin |-> (u = 2),
                quota_flash |-> 0, quota_25pro |-> 0,
                quota_30pro |-> IF u >= 2 THEN 1 ELSE 0,
                daily_quota |-> DailyQuota,
                bonus_quota |-> InitialBonus]]
  /\ logs = <<EarlierLog>>
  /\ reqs = [r \in ReqIds |-> NewRequest]
  /\ pool_calls = 0
  /\ last_call = NoCall
  /\ disabled = {}

FakeStreaming(rq) ==
  /\ rq.pc = "calling" /\ rq.endpoint = "chat" /\ rq.stream
  /\ rq.mode = "antigravity" /\ is_fake_streaming(rq.model)

Keepalives(frames) ==
  Cardinality({ i \in 1 .. Len(frames) : frames[i] = "keepalive" })

\* the initial role-only chunk, then the creation of the request task
fake_stream_initial_chunk(r) ==
  /\ FakeStreaming(reqs[r]) /\ reqs[r].task = "none"
  /\ reqs' = [reqs EXCEPT ![r] =
        [@ EXCEPT !.frames = Append(@, "role"), !.task = "pending"]]
  /\ UNCHANGED <<now, pool_mode, creds, users, logs, pool_calls, last_call, disabled>>

\* one pass of the polling loop that finds the task still pending after the sleep
fake_stream_heartbeat(r) ==
  /\ FakeStreaming(reqs[r]) /\ reqs[r].task = "pending"
  /\ Keepalives(reqs[r].frames) < MaxKeepalive
  /\ reqs' = [reqs EXCEPT ![r] = [@ EXCEPT !.frames = Append(@, "keepalive")]]
  /\ UNCHANGED <<now, pool_mode, creds, users, logs, pool_calls, last_call, disabled>>

\* the upstream call returns or raises
fake_stream_task_done(r, result) ==
  /\ FakeStreaming(reqs[r]) /\ reqs[r].task = "pending"
  /\ reqs' = [reqs EXCEPT ![r] = [@ EXCEPT !.task = result]]
  /\ UNCHANGED <<now, pool_mode, creds, users, logs, pool_calls, last_call, disabled>>

\* the frames chat_completions_fake_stream yields once the task is done
ClientTail(result) ==
  IF result = "text" THEN <<"content", "stop", "[DONE]">>
  ELSE IF result = "empty" THEN <<"stop", "[DONE]">>
  ELSE <<"error_stop", "[DONE]">>

\* the frame the generator of the handler yields after the client's frames
GeneratorTail == <<"[DONE]">>

\* the rest of the generator: the client's last frames, the log of a
\* successful request, the generator's own last frame
fake_stream_finish(r) ==
  LET rq == reqs[r]
      latency == (now - rq.start_time) * 1000
  IN
  /\ FakeStreaming(rq) /\ rq.task \in TaskResults
  /\ logs' = SaveLogRows(logs, rq.log_id, 200, latency, rq.credential,
                         rq.retry_attempt)
  /\ creds' = SaveLogCreds(creds, rq.credential, now)
  /\ reqs' = [reqs EXCEPT ![r] =
        [rq EXCEPT !.pc = "done", !.status = 200,
                   !.result = IF rq.task = "raised" THEN "error" ELSE "success",
                   !.frames = @ \o ClientTail(rq.task) \o GeneratorTail,
                   !.used = Append(@, rq.client_cred),
                   !.incs = Bump(@, rq.credential)]]
  /\ UNCHANGED <<now, pool_mode, users, pool_calls, last_call, disabled>>

NextFakeStream ==
  \/ Tick
  \/ \E r \in ReqIds, u \in Users, raw \in FakeStreamModels, refresh_ok \in BOOLEAN :
       agy_chat_completions(r, u, raw, TRUE, refresh_ok, "")
  \/ \E r \in ReqIds : fake_stream_initial_chunk(r)
  \/ \E r \in ReqIds : fake_stream_heartbeat(r)
  \/ \E r \in ReqIds, result \in TaskResults : fake_stream_task_done(r, result)
  \/ \E r \in ReqIds : fake_stream_finish(r)

SpecFakeStream == InitFakeStream /\ [][NextFakeStream]_vars

\* ---------------------------------------------------------------- routing by model prefix
\* Chat requests whose model names carry a streaming prefix, a variant prefix,
\* both or none, over a pool that holds credentials of both variants.
RoutingModels ==
  { <<"anti_truncation/", "agy", "gemini", "2.5", "flash">>,
    <<"anti_truncation/", "gcli", "gemini", "2.5", "flash">>,
    <<"fake_stream/", "agy", "gemini", "2.5", "flash">>,
    <<"anti_truncation/", "gemini", "2.5", "pro">>,
    <<"agy", "gemini", "2.5", "pro">>,
    <<"gcli", "gemini", "2.5", "flash">> }

InitRouting ==
  /\ now = 0
  /\ pool_mode = "full_shared"
  /\ \E kind \in [CredIds -> {"public3", "agy3"}] :
       /\ kind[1] = "public3" /\ kind[2] = "agy3"
       /\ creds = [c \in CredIds |-> FreshCredential(Template(1, kind[c]))]
  /\ users = [u \in Users |->
               [is_admin |-> (u = 2),
                quota_flash |-> 0, quota_25pro |-> 0,
                quota_30pro |-> IF u >= 2 THEN 1 ELSE 0,
                daily_quota |-> DailyQuota,
                bonus_quota |-> InitialBonus]]
  /\ logs = <<EarlierLog>>
  /\ reqs = [r \in ReqIds |-> NewRequest]
  /\ pool_calls = 0
  /\ last_call = NoCall
  /\ disabled = {}

NextRouting ==
  \/ Tick
  \/ \E r \in ReqIds, u \in Users, raw \in RoutingModels, stream \in BOOLEAN :
       chat_completions(r, u, raw, stream, TRUE)
  \/ \E r \in ReqIds, u \in Users, raw \in RoutingModels, stream \in BOOLEAN :
       agy_chat_completions(r, u, raw, stream, TRUE, "")
  \/ \E r \in ReqIds, o \in Outcomes : handle_non_stream(r, o, TRUE, "")
  \/ \E r \in ReqIds, o \in Outcomes : stream_generator_with_retry(r, o, TRUE, "")
  \/ \E r \in ReqIds : fake_stream_initial_chunk(r)
  \/ \E r \in ReqIds : fake_stream_heartbeat(r)
  \/ \E r \in ReqIds, result \in TaskResults : fake_stream_task_done(r, result)
  \/ \E r \in ReqIds : fake_stream_finish(r)

SpecRouting == InitRouting /\ [][NextRouting]_vars

\* ---------------------------------------------------------------- generationConfig limits
\* The generationConfig of a request as the handlers forward it.  NoValue is a
\* key that is absent or None.
NoValue == 0 - 1000000

TopKMax == 64
MaxOutputTokensMax == 65536
NormalizedMaxOutputTokens == 64000

TopKInputs == {NoValue, 0 - 1, 0, 1, 2, 63, 64, 65, 100}
MaxOutputTokensInputs == {NoValue, 0, 1, 64000, 65536, 65537, 100000}

InitLimits ==
  /\ now = 0
  /\ pool_mode = "full_shared"
  /\ creds = [c \in CredIds |-> FreshCredential(Template(1, "public3"))]
  /\ users = [u \in Users |->
               [is_admin |-> (u = 2),
                quota_flash |-> 0, quota_25pro |-> 0,
                quota_30pro |-> IF u >= 2 THEN 1 ELSE 0,
                daily_quota |-> DailyQuota,
                bonus_quota |-> InitialBonus]]
  /\ logs = <<EarlierLog>>
  /\ \E k \in TopKInputs, t \in MaxOutputTokensInputs :
       reqs = [r \in ReqIds |->
                 [NewRequest EXCEPT !.gen_config = [topK |-> k, maxOutputTokens |-> t]]]
  /\ pool_calls = 0
  /\ last_call = NoCall
  /\ disabled = {}

\* the two range checks of the native handler on one value
LimitNative(v, max) ==
  IF v # NoValue /\ (v < 1 \/ v > max) THEN max ELSE v

\* gemini_generate_content: the generationConfig put into the request body
native_generation_config(r) ==
  /\ reqs[r].pc = "new"
  /\ reqs' = [reqs EXCEPT ![r] =
        [@ EXCEPT !.pc = "built", !.endpoint = "native",
                  !.request_body =
                     [topK |-> LimitNative(reqs[r].gen_config.topK, TopKMax),
                      maxOutputTokens |->
                        LimitNative(reqs[r].gen_config.maxOutputTokens,
                                    MaxOutputTokensMax)]]]
  /\ UNCHANGED <<now, pool_mode, creds, users, logs, pool_calls, last_call, disabled>>

\* normalize_gemini_request on the generationConfig of an Antigravity
\* request; other_keys: the config has keys besides the two limited ones
normalize_gemini_request(r, other_keys) ==
  LET cfg == reqs[r].gen_config
      nonempty == cfg.topK # NoValue \/ cfg.maxOutputTokens # NoValue \/ other_keys
  IN
  /\ reqs[r].pc = "new"
  /\ reqs' = [reqs EXCEPT ![r] =
        [@ EXCEPT !.pc = "built", !.endpoint = "chat", !.mode = "antigravity",
                  !.request_body =
                     IF nonempty
                       THEN [topK |-> TopKMax,
                             maxOutputTokens |-> NormalizedMaxOutputTokens]
                       ELSE cfg]]
  /\ UNCHANGED <<now, pool_mode, creds, users, logs, pool_calls, last_call, disabled>>

NextLimits ==
  \/ \E r \in ReqIds : native_generation_config(r)
  \/ \E r \in ReqIds, other_keys \in BOOLEAN : normalize_gemini_request(r, other_keys)

SpecLimits == InitLimits /\ [][NextLimits]_vars

\* ---------------------------------------------------------------- custom error messages
\* Direct calls of get_custom_error_message and of its variant that takes the
\* rules as a list.  last_call holds the arguments of the call, the switch
\* and the table error_message_configs it reads (rule i has id i), and the id
\* of the rule whose message it returns.  Texts are sequences of characters.
MaxRules == 2

NoRule == 0

\* str.lower() on one character and on a text
LowerChar(ch) ==
  IF ch = "Q" THEN "q" ELSE IF ch = "U" THEN "u" ELSE IF ch = "O" THEN "o" ELSE ch

LowerText(text) == [i \in 1 .. Len(text) |-> LowerChar(text[i])]

\* k in t, for texts
IsSubstring(k, t) ==
  \E i \in 0 .. (Len(t) - Len(k)) : \A j \in 1 .. Len(k) : t[i + j] = k[j]

RuleKeywords == { <<>>, <<"Q", "u", "o">>, <<"x">> }
RuleKinds == {"", "RATE_LIMIT"}
ErrorKinds == {"RATE_LIMIT", "AUTH_ERROR"}
ErrorTexts == { <<"n", "o", " ", "q", "U", "O", "t", "a">>, <<"4", "0", "3">> }

Rules ==
  [keyword : RuleKeywords, error_type : RuleKinds,
   priority : {0, 1}, is_active : BOOLEAN]

InitRules ==
  /\ now = 0
  /\ pool_mode = "full_shared"
  /\ creds = [c \in CredIds |-> FreshCredential(Template(1, "public3"))]
  /\ users = [u \in Users |->
               [is_admin |-> (u = 2),
                quota_flash |-> 0, quota_25pro |-> 0,
                quota_30pro |-> IF u >= 2 THEN 1 ELSE 0,
                daily_quota |-> DailyQuota,
                bonus_quota |-> InitialBonus]]
  /\ logs = <<EarlierLog>>
  /\ reqs = [r \in ReqIds |-> NewRequest]
  /\ pool_calls = 0
  /\ \E n \in 0 .. MaxRules :
       \E rules \in [1 .. n -> Rules], enabled \in BOOLEAN,
          error_type \in ErrorKinds, error_text \in ErrorTexts :
         last_call = [op |-> "", enabled |-> enabled, rules |-> rules,
                      error_type |-> error_type, error_text |-> error_text,
                      message |-> NoRule]
  /\ disabled = {}

\* the test of the loop body that ignores the error type of a rule with a keyword
RuleMatchesKeywordOnly(config, error_type, error_text) ==
  IF config.keyword # <<>>
    THEN IsSubstring(LowerText(config.keyword), LowerText(error_text))
    ELSE config.error_type # "" /\ config.error_type = error_type

\* the test of the loop body on one rule
RuleMatches(config, error_type, error_text) ==
  IF config.keyword # <<>>
    THEN /\ IsSubstring(LowerText(config.keyword), LowerText(error_text))
         /\ (config.error_type # "" => config.error_type = error_type)
    ELSE config.error_type # "" /\ config.error_type = error_type

\* the rules the loop can return from: the first match of a list in
\* descending priority.  Rules of equal priority come in an order the
\* query does not fix.
FirstMatches(rules, error_type, error_text) ==
  { i \in DOMAIN rules :
      /\ rules[i].is_active
      /\ RuleMatches(rules[i], error_type, error_text)
      /\ \A j \in DOMAIN rules :
            (rules[j].is_active /\ RuleMatches(rules[j], error_type, error_text))
            => rules[j].priority <= rules[i].priority }

\* the first match after a stable sort of the given list by priority
FirstMatchSorted(rules, error_type, error_text) ==
  { i \in FirstMatches(rules, error_type, error_text) :
      \A j \in FirstMatches(rules, error_type, error_text) : i <= j }

get_custom_error_message ==
  /\ last_call.op = ""
  /\ \E id \in IF last_call.enabled
                  /\ FirstMatches(last_call.rules, last_call.error_type,
                                  last_call.error_text) # {}
                THEN FirstMatches(last_call.rules, last_call.error_type,
                                  last_call.error_text)
                ELSE {NoRule} :
       last_call' = [last_call EXCEPT !.op = "get_custom_error_message",
                                      !.message = id]
  /\ UNCHANGED <<now, pool_mode, creds, users, logs, reqs, pool_calls, disabled>>

get_custom_error_message_sync ==
  /\ last_call.op = ""
  /\ \E id \in IF FirstMatchSorted(last_call.rules, last_call.error_type,
                                    last_call.error_text) # {}
                THEN FirstMatchSorted(last_call.rules, last_call.error_type,
                                      last_call.error_text)
                ELSE {NoRule} :
       last_call' = [last_call EXCEPT !.op = "get_custom_error_message_sync",
                                      !.message = id]
  /\ UNCHANGED <<now, pool_mode, creds, users, logs, reqs, pool_calls, disabled>>

NextRules ==
  \/ get_custom_error_message
  \/ get_custom_error_message_sync

SpecRules == InitRules /\ [][NextRules]_vars

\* ---------------------------------------------------------------- retry delay of a 429
\* Direct calls of handle_429_rate_limit.  The error text is a sequence of
\* fragments, each of a form one of the patterns of parse_429_retry_after
\* can match: "retryDelay": "Ns" (retryDelay), retry after N s (retry_after_s),
\* retry after N seconds (retry_after_seconds, which the pattern for
\* N seconds matches as well), N seconds (seconds), or other text.
MaxFragments == 2

\* chunks one upstream attempt of a streaming request delivers at most
MaxChunks == 1

DelayNumbers == {0, 30, 100}

Fragments ==
  [kind : {"retryDelay", "retry_after_s", "retry_after_seconds", "seconds"},
   n : DelayNumbers]
  \cup {[kind |-> "other", n |-> 0]}

\* the Retry-After header: absent, a date, or an integer
RetryAfterHeaders ==
  { [set |-> FALSE, numeric |-> FALSE, value |-> 0],
    [set |-> TRUE, numeric |-> FALSE, value |-> 0],
    [set |-> TRUE, numeric |-> TRUE, value |-> 0],
    [set |-> TRUE, numeric |-> TRUE, value |-> RetryAfter],
    [set |-> TRUE, numeric |-> TRUE, value |-> 0 - 5] }

\* re.search: the fragments of the text a pattern matches, by position
MatchesOf(error_text, kinds) ==
  { i \in 1 .. Len(error_text) : error_text[i].kind \in kinds }

\* the capture of the leftmost match
FirstCapture(error_text, kinds) ==
  error_text[CHOOSE i \in MatchesOf(error_text, kinds) :
               \A j \in MatchesOf(error_text, kinds) : i <= j].n

\* the patterns tried before the header
parse_retry_delay_text_first(error_text, header) ==
  IF MatchesOf(error_text, {"retryDelay"}) # {}
    THEN FirstCapture(error_text, {"retryDelay"})
  ELSE IF header.set /\ header.numeric THEN header.value
  ELSE 0

\* parse_429_retry_after on a text and a header
parse_retry_delay(error_text, header) ==
  IF header.set /\ header.numeric THEN header.value
  ELSE IF MatchesOf(error_text, {"retryDelay"}) # {}
    THEN FirstCapture(error_text, {"retryDelay"})
  ELSE IF MatchesOf(error_text, {"retry_after_s", "retry_after_seconds"}) # {}
    THEN FirstCapture(error_text, {"retry_after_s", "retry_after_seconds"})
  ELSE IF MatchesOf(error_text, {"seconds", "retry_after_seconds"}) # {}
    THEN FirstCapture(error_text, {"seconds", "retry_after_seconds"})
  ELSE 0

InitDelay ==
  /\ now = 0
  /\ pool_mode = "full_shared"
  /\ creds = [c \in CredIds |-> FreshCredential(Template(1, "public3"))]
  /\ users = [u \in Users |->
               [is_admin |-> (u = 2),
                quota_flash |-> 0, quota_25pro |-> 0,
                quota_30pro |-> IF u >= 2 THEN 1 ELSE 0,
                daily_quota |-> DailyQuota,
                bonus_quota |-> InitialBonus]]
  /\ logs = <<EarlierLog>>
  /\ reqs = [r \in ReqIds |-> NewRequest]
  /\ pool_calls = 0
  /\ \E n \in 0 .. MaxFragments :
       \E error_text \in [1 .. n -> Fragments], header \in RetryAfterHeaders :
         last_call = [op |-> "", cred |-> NoCred, model |-> <<>>,
                      error_text |-> error_text, header |-> header,
                      cd_seconds |-> 0]
  /\ disabled = {}

\* CredentialPool.handle_429_rate_limit for credential c; cd_seconds is the
\* value it returns
handle_429_rate_limit(c, model) ==
  LET parsed == parse_retry_delay(last_call.error_text, last_call.header)
  IN
  /\ last_call.op = ""
  /\ creds' = RateLimitCredsParsed(creds, c, model, parsed, now)
  /\ last_call' = [last_call EXCEPT !.op = "handle_429_rate_limit",
                                    !.cred = c, !.model = model,
                                    !.cd_seconds = cd_seconds_of(parsed)]
  /\ UNCHANGED <<now, pool_mode, users, logs, reqs, pool_calls, disabled>>

NextDelay ==
  \E c \in CredIds, model \in RotationModels : handle_429_rate_limit(c, model)

SpecDelay == InitDelay /\ [][NextDelay]_vars

\* ---------------------------------------------------------------- concurrent failure handling
\* two requests, each with a database session of its own, run one failure
\* handler each; a handler is suspended at every await (a statement sent to
\* the database, a commit) and reads what has been committed by then
Handlers == {1, 2}

IdleHandler ==
  [pc |-> "idle", op |-> "", cred |-> NoCred, model |-> <<>>,
   writes_user |-> FALSE, bonus_quota |-> 0, failed_requests |-> 0]

InitFailure ==
  /\ now = 0
  /\ pool_mode = "full_shared"
  /\ \E kinds \in [CredIds -> {"private25", "public3"}] :
       creds = [c \in CredIds |-> FreshCredential(Template(1, kinds[c]))]
  /\ users = [u \in Users |->
               [is_admin |-> (u = 2),
                quota_flash |-> 0, quota_25pro |-> 0,
                quota_30pro |-> IF u >= 2 THEN 1 ELSE 0,
                daily_quota |-> DailyQuota,
                bonus_quota |-> InitialBonus]]
  /\ logs = <<EarlierLog>>
  /\ reqs = [r \in ReqIds |-> NewRequest]
  /\ pool_calls = 0
  /\ last_call = [h \in Handlers |-> IdleHandler]
  /\ disabled = {}

\* handle_credential_failure, first statement: mark_credential_error, one
\* UPDATE ... SET failed_requests = failed_requests + 1 and its commit; the
\* handler returns here unless the error is an authorisation failure
failure_mark(h, c, o) ==
  /\ last_call[h].pc = "idle"
  /\ o.status # 200
  /\ creds' = mark_credential_error(creds, c)
  /\ last_call' = [last_call EXCEPT ![h] =
       [@ EXCEPT !.pc = IF IsAuthError(ErrorSubstrings(o)) THEN "marked" ELSE "done",
                 !.op = "handle_credential_failure",
                 !.cred = c]]
  /\ UNCHANGED <<now, pool_mode, users, logs, reqs, pool_calls, disabled>>

\* handle_credential_failure: SELECT of the credential and the test of its
\* is_active; the change of is_active stays in the session until the commit
failure_select_credential(h) ==
  LET cred == creds[last_call[h].cred] IN
  /\ last_call[h].pc = "marked"
  /\ last_call' = [last_call EXCEPT ![h].pc =
       IF ~ cred.is_active THEN "done"
       ELSE IF cred.is_public /\ cred.user_id \in Users THEN "selected"
       ELSE "committing"]
  /\ UNCHANGED <<now, pool_mode, creds, users, logs, reqs, pool_calls, disabled>>

\* handle_credential_failure: SELECT of the owner and the new bonus_quota,
\* computed from the row as read
failure_select_user(h) ==
  LET cred == creds[last_call[h].cred] IN
  /\ last_call[h].pc = "selected"
  /\ last_call' = [last_call EXCEPT ![h] =
       [@ EXCEPT !.pc = "committing",
                 !.writes_user = TRUE,
                 !.bonus_quota =
                    Max0(users[cred.user_id].bonus_quota - RewardOf(cred))]]
  /\ UNCHANGED <<now, pool_mode, creds, users, logs, reqs, pool_calls, disabled>>

\* handle_credential_failure: the commit writes the attributes the session
\* changed
failure_commit(h) ==
  LET c == last_call[h].cred IN
  /\ last_call[h].pc = "committing"
  /\ last_call[h].op = "handle_credential_failure"
  /\ creds' = [creds EXCEPT ![c].is_active = FALSE]
  /\ users' = IF last_call[h].writes_user
                THEN [users EXCEPT ![creds[c].user_id].bonus_quota =
                                      last_call[h].bonus_quota]
                ELSE users
  /\ disabled' = disabled \cup {c}
  /\ last_call' = [last_call EXCEPT ![h].pc = "done"]
  /\ UNCHANGED <<now, pool_mode, logs, reqs, pool_calls>>

\* handle_429_rate_limit: SELECT of the credential; failed_requests is read
\* here and incremented in the session
rate_limit_select(h, c, model) ==
  /\ last_call[h].pc = "idle"
  /\ last_call' = [last_call EXCEPT ![h] =
       [@ EXCEPT !.pc = "committing",
                 !.op = "handle_429_rate_limit",
                 !.cred = c,
                 !.model = model,
                 !.failed_requests = creds[c].failed_requests + 1]]
  /\ UNCHANGED <<now, pool_mode, creds, users, logs, reqs, pool_calls, disabled>>

\* handle_429_rate_limit: the commit writes the cooldown stamp and the
\* failed_requests of the session
rate_limit_commit(h) ==
  LET c == last_call[h].cred IN
  /\ last_call[h].pc = "committing"
  /\ last_call[h].op = "handle_429_rate_limit"
  /\ creds' = [RateLimitCredsParsed(creds, c, last_call[h].model, 0, now)
                 EXCEPT ![c].failed_requests = last_call[h].failed_requests]
  /\ last_call' = [last_call EXCEPT ![h].pc = "done"]
  /\ UNCHANGED <<now, pool_mode, users, logs, reqs, pool_calls, disabled>>

NextFailure ==
  \/ \E h \in Handlers, c \in CredIds, o \in PoolErrors : failure_mark(h, c, o)
  \/ \E h \in Handlers : failure_select_credential(h)
  \/ \E h \in Handlers : failure_select_user(h)
  \/ \E h \in Handlers : failure_commit(h)
  \/ \E h \in Handlers, c \in CredIds, model \in RotationModels :
       rate_limit_select(h, c, model)
  \/ \E h \in Handlers : rate_limit_commit(h)

SpecFailure == InitFailure /\ [][NextFailure]_vars

\* ---------------------------------------------------------------- credentials without a project
\* Direct calls of the pool over antigravity credentials of user 1 stored
\* with and without a project_id, listed in the order of ProjectIds.
ProjectIdAt == <<"NULL", "", "p1">>

InitProject ==
  /\ now = 0
  /\ pool_mode \in PoolModes
  /\ \E f \in [CredIds -> 1 .. Len(ProjectIdAt)] :
       /\ \A c, d \in CredIds : c < d => f[c] <= f[d]
       /\ creds = [c \in CredIds |->
                     [FreshCredential(Template(1, "agy3"))
                        EXCEPT !.project_id = ProjectIdAt[f[c]]]]
  /\ users = [u \in Users |->
               [is_admin |-> (u = 2),
                quota_flash |-> 0, quota_25pro |-> 0,
                quota_30pro |-> IF u >= 2 THEN 1 ELSE 0,
                daily_quota |-> DailyQuota,
                bonus_quota |-> InitialBonus]]
  /\ logs = <<EarlierLog>>
  /\ reqs = [r \in ReqIds |-> NewRequest]
  /\ pool_calls = 0
  /\ last_call = NoCall
  /\ disabled = {}

SpecProject == InitProject /\ [][NextPool]_vars

\* ---------------------------------------------------------------- streaming, chunk by chunk
\* One streaming chat request of user 1 on the antigravity variant, from the
\* moment its generator starts: the first credential is acquired and
\* stamped, the placeholder row written. frames holds the chunks sent to the
\* client, each with the credential and the attempt it came from.
StreamModel == <<"gemini", "2.5", "flash">>

InitStream ==
  /\ now = 0
  /\ pool_mode = "private"
  /\ users = [u \in Users |->
               [is_admin |-> (u = 2),
                quota_flash |-> 0, quota_25pro |-> 0,
                quota_30pro |-> IF u >= 2 THEN 1 ELSE 0,
                daily_quota |-> DailyQuota,
                bonus_quota |-> InitialBonus]]
  /\ logs = <<EarlierLog, NewLog(1, StreamModel, "chat", 0)>>
  /\ pool_calls = 0
  /\ last_call = NoCall
  /\ disabled = {}
  /\ \E active \in 1 .. NCreds :
       LET stored == [c \in CredIds |->
                        [FreshCredential(Template(1, "agy3"))
                           EXCEPT !.is_active = (c <= active),
                                  !.api_key = TRUE, !.token_expiry = 1000]]
       IN  \E first \in PickCredential(stored, "private", 1, FALSE, StreamModel,
                                       {}, "antigravity", 0) \ {NoCred} :
             /\ creds = StampCredential(stored, first, StreamModel, 0)
             /\ reqs = [r \in ReqIds |->
                  [NewRequest EXCEPT
                     !.pc = "calling", !.endpoint = "chat", !.stream = TRUE,
                     !.user = 1, !.model = StreamModel, !.mode = "antigravity",
                     !.tried = {first}, !.credential = first,
                     !.client_cred = first, !.log_id = 2, !.start_time = 0,
                     !.incs = Bump(@, first)]]

\* the chunks of the running attempt already sent
ChunksOfAttempt(rq) ==
  Cardinality({ i \in 1 .. Len(rq.frames) : rq.frames[i].attempt = rq.retry_attempt })

\* `async for chunk in client.chat_completions_stream(...): yield chunk`:
\* one chunk of the running attempt goes to the client
stream_yield_chunk(r) ==
  /\ reqs[r].pc = "calling"
  /\ ChunksOfAttempt(reqs[r]) < MaxChunks
  /\ reqs' = [reqs EXCEPT ![r].frames =
       Append(@, [cred |-> reqs[r].client_cred, attempt |-> reqs[r].retry_attempt])]
  /\ UNCHANGED <<now, pool_mode, creds, users, logs, pool_calls, last_call, disabled>>

\* the attempt ends: the upstream stream is exhausted (status 200), the
\* response has an error status (raised before any line is read), or the
\* connection fails while lines are read (status 0)
stream_attempt_ends(r, o, refresh_ok) ==
  /\ o.status \notin {200, 0} => ChunksOfAttempt(reqs[r]) = 0
  /\ stream_generator_with_retry(r, o, refresh_ok, "")

NextStream ==
  \/ \E r \in ReqIds : stream_yield_chunk(r)
  \/ \E r \in ReqIds, o \in Outcomes, refresh_ok \in BOOLEAN :
       stream_attempt_ends(r, o, refresh_ok)

SpecStream == InitStream /\ [][NextStream]_vars

\* ---------------------------------------------------------------- antigravity quota
\* Three concurrent chat requests on the antigravity variant with
\* antigravity_quota_enabled. The User object of a request is loaded by
\* get_user_from_api_key into the session of the request; the quota block
\* reads and writes that object and commits.
antigravity_quota_default == 1

AgyReqs == {1, 2, 3}

NewAgyRequest == [pc |-> "new", user |-> 0, used_antigravity |-> 0]

InitAgyQuota ==
  /\ now = 0
  /\ pool_mode = "full_shared"
  /\ creds = [c \in CredIds |-> FreshCredential(Template(1, "agy3"))]
  /\ \E custom \in {0, 2} :
       users = [u \in Users |->
                 [is_admin |-> (u = 2),
                  quota_antigravity |-> custom,
                  used_antigravity |-> 0]]
  /\ logs = <<EarlierLog>>
  /\ reqs = [r \in ReqIds |-> NewRequest]
  /\ pool_calls = 0
  /\ last_call = [r \in AgyReqs |-> NewAgyRequest]
  /\ disabled = {}

\* user.quota_antigravity if it is positive, else the default
user_quota_antigravity(user) ==
  IF user.quota_antigravity > 0 THEN user.quota_antigravity
  ELSE antigravity_quota_default

\* get_user_from_api_key: the row of the user as the session holds it from
\* here on
agy_load_user(r, u) ==
  /\ last_call[r].pc = "new"
  /\ last_call' = [last_call EXCEPT ![r] =
       [@ EXCEPT !.pc = "loaded", !.user = u,
                 !.used_antigravity = users[u].used_antigravity]]
  /\ UNCHANGED <<now, pool_mode, creds, users, logs, reqs, pool_calls, disabled>>

\* the quota block of chat_completions: 429 when the used count of the
\* session's object has reached the quota, else that count plus one is
\* written and committed; admins skip the block
agy_quota_check(r) ==
  LET u == last_call[r].user
      user_used == last_call[r].used_antigravity
  IN  /\ last_call[r].pc = "loaded"
      /\ IF users[u].is_admin
           THEN /\ last_call' = [last_call EXCEPT ![r].pc = "admitted"]
                /\ UNCHANGED users
         ELSE IF user_used >= user_quota_antigravity(users[u])
           THEN /\ last_call' = [last_call EXCEPT ![r].pc = "rejected"]
                /\ UNCHANGED users
         ELSE /\ last_call' = [last_call EXCEPT ![r].pc = "admitted"]
              /\ users' = [users EXCEPT ![u].used_antigravity = user_used + 1]
      /\ UNCHANGED <<now, pool_mode, creds, logs, reqs, pool_calls, disabled>>

NextAgyQuota ==
  \/ \E r \in AgyReqs, u \in Users : agy_load_user(r, u)
  \/ \E r \in AgyReqs : agy_quota_check(r)

SpecAgyQuota == InitAgyQuota /\ [][NextAgyQuota]_vars

\* ---------------------------------------------------------------- specification
Next ==
  \/ Tick
  \/ \E r \in ReqIds, u \in Users, raw \in ModelNames,
        stream \in BOOLEAN, refresh_ok \in BOOLEAN :
       chat_completions(r, u, raw, stream, refresh_ok)
  \/ \E r \in ReqIds, u \in Users, raw \in ModelNames,
        stream \in BOOLEAN, refresh_ok \in BOOLEAN :
       agy_chat_completions(r, u, raw, stream, refresh_ok, "")
  \/ \E r \in ReqIds, o \in Outcomes, refresh_ok \in BOOLEAN :
       handle_non_stream(r, o, refresh_ok, "")
  \/ \E r \in ReqIds, o \in Outcomes, refresh_ok \in BOOLEAN :
       stream_generator_with_retry(r, o, refresh_ok, "")
  \/ \E r \in ReqIds, u \in Users, model \in NativeModels :
       gemini_generate_content(r, u, model)
  \/ \E r \in ReqIds, o \in Outcomes, refresh_ok \in BOOLEAN :
       gemini_generate_content_attempt(r, o, refresh_ok)

Spec == Init /\ [][Next]_vars

\* ---------------------------------------------------------------- admission of concurrent requests
\* The handlers run as coroutines of one event loop: between two awaits of a
\* request the steps of any other request may run.  The steps below are the
\* stretches between the awaits that read or write usage_logs; what a
\* request does with credentials and the upstream is left to Spec.
GuardReqs == {1, 2}

GuardChatModels == { <<"gcli", "gemini", "2.5", "flash">>, <<"agy", "gemini", "2.5", "pro">> }

GuardNativeModels == { <<"gemini", "2.5", "pro">> }

\* rows of user 1 written before the requests arrive: before the last reset of
\* the daily quota, at the reset, and a minute ago
GuardRowTimes == <<start_of_day(0) - 1, start_of_day(0), 0 - RpmWindow>>

GuardRow(model, t) == SetLog(NewLog(1, model, "chat", t), 200, 0, NoCred, "", 0)

\* the credentials of user 1, the last ones disabled
InitGuard ==
  /\ now = 0
  /\ pool_mode = "private"
  /\ \E f \in [CredIds -> 1 .. Len(TemplateKinds)], active \in 0 .. NCreds :
       /\ \A c, d \in CredIds : c < d => f[c] < f[d]
       /\ creds = [c \in CredIds |->
                     [FreshCredential(Template(1, TemplateKinds[f[c]]))
                        EXCEPT !.is_active = (c <= active)]]
  /\ users = [u \in Users |->
               [is_admin |-> (u = 2),
                quota_flash |-> 0, quota_25pro |-> 0,
                quota_30pro |-> IF u >= 2 THEN 1 ELSE 0,
                daily_quota |-> DailyQuota,
                bonus_quota |-> InitialBonus]]
  /\ \E i, j \in 1 .. Len(GuardRowTimes), model \in GuardNativeModels :
       /\ i <= j
       /\ logs = <<GuardRow(DefaultModel, GuardRowTimes[i]),
                   GuardRow(model, GuardRowTimes[j])>>
  /\ reqs = [r \in GuardReqs |-> NewRequest]
  /\ pool_calls = 0
  /\ last_call = NoCall
  /\ disabled = {}

\* requests of one user that passed their RPM check in the last minute and
\* wait for the upstream
InFlight(rq, user_id, t) ==
  Cardinality({ q \in DOMAIN rq : /\ rq[q].user = user_id
                                  /\ rq[q].pc = "calling"
                                  /\ rq[q].start_time >= t - RpmWindow })

\* the dependency get_user_from_api_key of a POST; body_model is the "model"
\* of the JSON body, which the native endpoint does not carry
guard_get_user_from_api_key(r, u, endpoint, raw) ==
  LET body_model == IF endpoint = "native" THEN DefaultModel ELSE raw
      rq == [reqs[r] EXCEPT !.endpoint = endpoint, !.user = u,
                            !.model = IF endpoint = "native" THEN raw
                                      ELSE StripVariant(raw),
                            !.mode = IF Head(raw) = "agy" THEN "antigravity"
                                     ELSE "geminicli",
                            !.day_seen = total_usage(logs, u, now)]
      status == AuthGate(creds, users, logs, u, body_model, now)
  IN  /\ reqs[r].pc = "new"
      /\ \A q \in GuardReqs : q < r => reqs[q].pc # "new"
      /\ reqs' = [reqs EXCEPT ![r] =
            IF status # 0 THEN Rejected(rq, status) ELSE [rq EXCEPT !.pc = "authed"]]
      /\ UNCHANGED <<now, pool_mode, creds, users, logs, pool_calls, last_call, disabled>>

\* the handler from check_user_has_public_creds to the RPM check
guard_rpm_check(r) ==
  LET u == reqs[r].user
      user_has_public == check_user_has_public_creds(creds, u, reqs[r].mode)
      rq == [reqs[r] EXCEPT !.user_has_public = user_has_public,
                            !.start_time = now]
      seen == [rq EXCEPT !.rpm_seen = current_rpm(logs, u, now),
                         !.rpm_rows = Len(logs),
                         !.inflight_seen = InFlight(reqs, u, now)]
  IN  /\ reqs[r].pc = "authed"
      /\ reqs' = [reqs EXCEPT ![r] =
            IF users[u].is_admin
              THEN [rq EXCEPT !.pc = IF rq.endpoint = "chat" THEN "checked"
                                     ELSE "calling"]
            ELSE IF current_rpm(logs, u, now) >= max_rpm(user_has_public)
              THEN Rejected(seen, 429)
            ELSE [seen EXCEPT !.pc = IF rq.endpoint = "chat" THEN "checked"
                                     ELSE "calling"]]
      /\ UNCHANGED <<now, pool_mode, creds, users, logs, pool_calls, last_call, disabled>>

\* the chat handlers: the placeholder row and its commit
guard_insert_placeholder(r) ==
  /\ reqs[r].pc = "checked"
  /\ logs' = Append(logs, NewLog(reqs[r].user, reqs[r].model, "chat", now))
  /\ reqs' = [reqs EXCEPT ![r] = [@ EXCEPT !.pc = "calling", !.log_id = Len(logs) + 1]]
  /\ UNCHANGED <<now, pool_mode, creds, users, pool_calls, last_call, disabled>>

\* the end of a request whose upstream call succeeds: the chat handlers
\* finalise the placeholder, the native handler inserts its row
guard_complete(r) ==
  LET rq == reqs[r]
      latency == (now - rq.start_time) * 1000
  IN  /\ rq.pc = "calling"
      /\ logs' = IF rq.endpoint = "chat"
                   THEN SaveLogRows(logs, rq.log_id, 200, latency, NoCred, 0)
                   ELSE Append(logs, SetLog(NewLog(rq.user, rq.model, "native", now),
                                            200, latency, NoCred, "", 0))
      /\ reqs' = [reqs EXCEPT ![r] =
            [rq EXCEPT !.pc = "done", !.status = 200, !.result = "success"]]
      /\ UNCHANGED <<now, pool_mode, creds, users, pool_calls, last_call, disabled>>

NextGuard ==
  \/ Tick
  \/ \E r \in GuardReqs, u \in Users, raw \in GuardChatModels :
       guard_get_user_from_api_key(r, u, "chat", raw)
  \/ \E r \in GuardReqs, u \in Users, model \in GuardNativeModels :
       guard_get_user_from_api_key(r, u, "native", model)
  \/ \E r \in GuardReqs : guard_rpm_check(r)
  \/ \E r \in GuardReqs : guard_insert_placeholder(r)
  \/ \E r \in GuardReqs : guard_complete(r)

SpecGuard == InitGuard /\ [][NextGuard]_vars

\* ---------------------------------------------------------------- properties
\* a direct call of get_available_credential that returned a credential
Acquired == last_call.op = "acquire" /\ last_call.cred # NoCred

C2_VariantAndProject ==
  Acquired =>
    /\ creds[last_call.cred].api_type = last_call.mode
    /\ creds[last_call.cred].project_id \notin {"NULL", ""}

\* an acquire returned a credential while an active credential of the caller
\* without project, and one of the other variant, were in the table
C2_Witness ==
  /\ Acquired
  /\ \E d \in CredIds :
       /\ creds[d].is_active
       /\ creds[d].user_id = last_call.user_id
       /\ creds[d].api_type = last_call.mode
       /\ creds[d].project_id \in {"NULL", ""}
  /\ \E d \in CredIds :
       /\ creds[d].is_active
       /\ creds[d].user_id = last_call.user_id
       /\ creds[d].api_type # last_call.mode

\* the table with model_tier of every credential set to tier
WithTier(cr, tier) == [c \in CredIds |-> [cr[c] EXCEPT !.model_tier = tier]]

\* C3: for a model that needs tier 3 only credentials with model_tier "3" are
\* returned; for any other model the rows the query selects do not depend on
\* model_tier
C3_TierRestriction ==
  /\ (Acquired /\ get_required_tier(last_call.model) = "3")
       => creds[last_call.cred].model_tier = "3"
  /\ (Acquired /\ get_required_tier(last_call.model) # "3") =>
       \A flag \in BOOLEAN, tier \in {"3", "2.5"} :
          Candidates(WithTier(creds, tier), pool_mode, last_call.user_id, flag,
                     last_call.model, {}, last_call.mode)
            = Candidates(creds, pool_mode, last_call.user_id, flag,
                         last_call.model, {}, last_call.mode)

\* a tier-3 model was served while an active tier-2.5 credential of the caller
\* was in the table
C3_Witness ==
  /\ Acquired
  /\ get_required_tier(last_call.model) = "3"
  /\ \E d \in CredIds :
       /\ creds[d].is_active
       /\ creds[d].user_id = last_call.user_id
       /\ creds[d].api_type = last_call.mode
       /\ creds[d].project_id = "p1"
       /\ creds[d].model_tier = "2.5"

\* C4: in every pool mode a credential that is not public is never returned
\* to a user who does not own it
C4_PrivateStaysWithOwner ==
  (Acquired /\ creds[last_call.cred].user_id # last_call.user_id)
    => creds[last_call.cred].is_public

\* a user was handed the public credential of another user while an active
\* private credential of another user was in the table
C4_Witness ==
  /\ Acquired
  /\ creds[last_call.cred].user_id # last_call.user_id
  /\ \E d \in CredIds :
       /\ creds[d].is_active
       /\ creds[d].user_id # last_call.user_id
       /\ creds[d].api_type = last_call.mode
       /\ creds[d].project_id = "p1"
       /\ ~ creds[d].is_public

\* ---------------------------------------------------------------- properties of a request
\* the user owns a credential flagged public (the donor condition)
IsDonor(u) == \E c \in CredIds : creds[c].user_id = u /\ creds[c].is_public

\* C5: in full_shared mode a user who has not donated a public credential is
\* only handed their own credentials; a donor is handed public credentials or
\* their own
C5_DonorRule ==
  pool_mode = "full_shared" =>
    \A r \in ReqIds : \A c \in reqs[r].tried :
       /\ ~ IsDonor(reqs[r].user) => creds[c].user_id = reqs[r].user
       /\ creds[c].user_id = reqs[r].user \/ creds[c].is_public

\* a user without public credential was handed their own credential while an
\* active public credential of another user, of the requested variant, existed
C5_Witness ==
  /\ pool_mode = "full_shared"
  /\ \E r \in ReqIds :
       /\ reqs[r].tried # {}
       /\ ~ IsDonor(reqs[r].user)
       /\ \E d \in CredIds :
            /\ creds[d].is_active
            /\ creds[d].is_public
            /\ creds[d].user_id # reqs[r].user
            /\ creds[d].api_type = reqs[r].mode
            /\ creds[d].project_id = "p1"

\* C6: within one chat request every upstream attempt after a failure uses a
\* credential (token and project) different from those of all earlier attempts
C6_FreshCredentialPerAttempt ==
  \A r \in ReqIds :
     reqs[r].endpoint = "chat" =>
       \A i, j \in 1 .. Len(reqs[r].used) :
          i < j => reqs[r].used[i] # reqs[r].used[j]

\* C7: a request makes at most max_retries + 1 upstream calls and its loop
\* always ends, in success or in an error: every pass either ends the request
\* or moves to the next of the max_retries + 1 passes, and a pass is always
\* possible
C7_BoundedAttempts ==
  /\ [](\A r \in ReqIds :
          /\ Len(reqs[r].used) <= error_retry_count + 1
          /\ reqs[r].retry_attempt <= error_retry_count
          /\ reqs[r].pc = "done" => reqs[r].result \in {"success", "error"}
          /\ reqs[r].pc = "calling" =>
               ENABLED (\E o \in Outcomes, refresh_ok \in BOOLEAN :
                          \/ handle_non_stream(r, o, refresh_ok, "")
                          \/ stream_generator_with_retry(r, o, refresh_ok, "")
                          \/ gemini_generate_content_attempt(r, o, refresh_ok)))
  /\ [][\A r \in ReqIds :
          (reqs[r].pc = "calling" /\ reqs'[r] # reqs[r]) =>
             \/ reqs'[r].pc = "done"
             \/ reqs'[r].retry_attempt = reqs[r].retry_attempt + 1]_vars

\* a request ended after max_retries + 1 upstream calls
C7_Witness ==
  \E r \in ReqIds :
     /\ reqs[r].pc = "done"
     /\ Len(reqs[r].used) = error_retry_count + 1

\* the credential whose token made the last upstream call of a request
ServingCredential(r) == reqs[r].used[Len(reqs[r].used)]

\* C8: for every request that returns 200, total_requests of the credential
\* that served it has increased by exactly 1 overall
C8_CountedOnce ==
  \A r \in ReqIds :
     (reqs[r].pc = "done" /\ reqs[r].status = 200 /\ reqs[r].result = "success")
       => reqs[r].incs[ServingCredential(r)] = 1

\* C9: every chat request that inserted a placeholder row has that row
\* finalised (status not 0, latency at least 0) when its response or stream ends
C9_PlaceholderFinalised ==
  \A r \in ReqIds :
     (reqs[r].pc = "done" /\ reqs[r].endpoint = "chat" /\ reqs[r].log_id # 0) =>
        /\ logs[reqs[r].log_id].status_code # 0
        /\ logs[reqs[r].log_id].latency_ms >= 0

\* C10: the placeholder row of a request goes from status 0 to a final status
\* at most once and is never rewritten afterwards; no other row of usage_logs
\* is modified after its insertion
C10_RowsWrittenOnce ==
  [][\A i \in 1 .. Len(logs) :
       /\ i <= Len(logs')
       /\ logs'[i] # logs[i] =>
            /\ logs[i].status_code = 0
            /\ logs'[i].status_code # 0
            /\ \E r \in ReqIds : reqs[r].log_id = i]_vars

\* a request ended with its placeholder finalised next to an earlier row
C10_Witness ==
  \E r \in ReqIds :
     /\ reqs[r].pc = "done"
     /\ reqs[r].log_id # 0
     /\ reqs[r].log_id <= Len(logs)
     /\ logs[reqs[r].log_id].status_code # 0
     /\ Len(logs) > 1

\* a request the RPM check turned away
RpmRejected(rq) ==
  rq.pc = "done" /\ rq.result = "error" /\ rq.status = 429 /\ rq.rpm_seen # NoTime

\* a request the RPM check let pass
RpmAdmitted(rq) ==
  rq.rpm_seen # NoTime /\ ~ RpmRejected(rq)

\* C11: the rows the RPM check of a chat request counts include the placeholder
\* row of that request: the row exists when the count is taken
C11_CountIncludesOwnRow ==
  \A r \in DOMAIN reqs :
     (reqs[r].endpoint = "chat" /\ reqs[r].log_id # 0 /\ reqs[r].rpm_seen # NoTime)
       => reqs[r].log_id <= reqs[r].rpm_rows

\* C12: the RPM check of a request counts every request of the same user that
\* is in flight at that moment, whatever the endpoint of that request
C12_InFlightCounted ==
  \A r \in DOMAIN reqs :
     reqs[r].rpm_seen # NoTime => reqs[r].rpm_seen >= reqs[r].inflight_seen

\* C13 as stated: a non-admin user with exactly rpm_limit rows in the last
\* minute is rejected by the RPM check and one with fewer rows is not, where
\* rpm_limit is contributor_rpm for a user owning a public credential and
\* base_rpm for any other user
C13_RpmLimitOwnsPublic ==
  \A r \in DOMAIN reqs :
     LET rq == reqs[r]
         rpm_limit == IF \E c \in CredIds : creds[c].user_id = rq.user
                                            /\ creds[c].is_public
                        THEN contributor_rpm ELSE base_rpm
     IN  (rq.rpm_seen # NoTime /\ ~ users[rq.user].is_admin)
           => /\ rq.rpm_seen = rpm_limit => RpmRejected(rq)
              /\ rq.rpm_seen < rpm_limit => ~ RpmRejected(rq)

\* C13 amended: a non-admin user with at least rpm_limit rows in the last
\* minute is rejected by the RPM check with status 429 and one with fewer rows
\* is not, where rpm_limit is contributor_rpm for a user owning an active
\* public credential of the variant the handler serves and base_rpm for any
\* other user
C13_RpmLimit ==
  \A r \in DOMAIN reqs :
     LET rq == reqs[r]
         rpm_limit == IF \E c \in CredIds : /\ creds[c].user_id = rq.user
                                            /\ creds[c].is_public
                                            /\ creds[c].is_active
                                            /\ creds[c].api_type = rq.mode
                        THEN contributor_rpm ELSE base_rpm
     IN  (rq.rpm_seen # NoTime /\ ~ users[rq.user].is_admin)
           => /\ rq.rpm_seen >= rpm_limit => RpmRejected(rq)
              /\ rq.rpm_seen < rpm_limit => ~ RpmRejected(rq)

\* a donor rejected with contributor_rpm rows in the last minute, next to a
\* request of the same user admitted with fewer rows
C13_Witness ==
  \E r, q \in DOMAIN reqs :
     /\ reqs[r].user_has_public /\ RpmRejected(reqs[r])
     /\ reqs[r].rpm_seen = contributor_rpm
     /\ reqs[q].user = reqs[r].user /\ reqs[q].user_has_public
     /\ RpmAdmitted(reqs[q]) /\ reqs[q].rpm_seen = contributor_rpm - 1

\* C14: whatever the interleaving of the chat requests of a non-admin user,
\* the requests of that user admitted in the last minute, earlier ones
\* included, are never more than the RPM limit of the user
C14_AdmittedWithinLimit ==
  \A u \in Users :
     LET admitted == { r \in DOMAIN reqs : /\ reqs[r].user = u
                                           /\ reqs[r].endpoint = "chat"
                                           /\ RpmAdmitted(reqs[r])
                                           /\ reqs[r].start_time >= now - RpmWindow }
         earlier == { i \in 1 .. 2 : /\ logs[i].user_id = u
                                     /\ logs[i].created_at >= now - RpmWindow }
         rpm_limit == IF \E c \in CredIds : /\ creds[c].user_id = u
                                            /\ creds[c].is_public
                                            /\ creds[c].is_active
                        THEN contributor_rpm ELSE base_rpm
     IN  (~ users[u].is_admin /\ admitted # {})
           => Cardinality(admitted) + Cardinality(earlier) <= rpm_limit

\* a request the dependency get_user_from_api_key turned away for its quota
QuotaRejected(rq) ==
  rq.pc = "done" /\ rq.result = "error" /\ rq.status = 429 /\ rq.rpm_seen = NoTime

\* C15: a POST of a user who has daily_quota or more rows since the last
\* reset at 07:00 UTC is rejected with the quota error
C15_DailyQuotaEnforced ==
  \A r \in DOMAIN reqs :
     (reqs[r].day_seen # NoTime /\ reqs[r].day_seen >= users[reqs[r].user].daily_quota)
       => QuotaRejected(reqs[r])

\* the delay a 429 response asks for: its Retry-After, or the default
RetryDelay(o) == IF o.retry_after # NoTime THEN o.retry_after ELSE Default429Delay

\* C16: after an upstream call with credential c for a model of group g is
\* answered 429, on the chat endpoints as on the native one, the stamp of c
\* for g plus the cooldown of g equals the time of the answer plus its delay
C16_CooldownAfter429 ==
  [][\A r \in ReqIds, o \in Outcomes, refresh_ok \in BOOLEAN :
       ( /\ o.status = 429
         /\ \/ handle_non_stream(r, o, refresh_ok, "")
            \/ stream_generator_with_retry(r, o, refresh_ok, "")
            \/ gemini_generate_content_attempt(r, o, refresh_ok)
         /\ Len(reqs'[r].used) = Len(reqs[r].used) + 1 )
       => LET c == reqs'[r].used[Len(reqs'[r].used)]
              g == get_model_group(reqs[r].model)
          IN  StampOf(creds'[c], g) + get_cd_seconds(g) = now + RetryDelay(o)]_vars

\* C17: a chat request whose first credential is answered 429 and whose
\* second credential is answered 200 ends with the success response, and its
\* row has status 200, retry_count 1 and the id of the second credential
C17_RetryThenSuccess ==
  \A r \in ReqIds :
     LET rq == reqs[r]
     IN  ( /\ rq.pc = "done" /\ rq.endpoint = "chat"
           /\ rq.seen = <<429, 200>>
           /\ rq.used[1] # rq.used[2] )
         => /\ rq.status = 200 /\ rq.result = "success"
            /\ logs[rq.log_id].status_code = 200
            /\ logs[rq.log_id].retry_count = 1
            /\ logs[rq.log_id].credential_id = rq.used[2]

\* a streamed chat request that succeeded with its second credential after a 429
C17_Witness ==
  \E r \in ReqIds :
     /\ reqs[r].pc = "done" /\ reqs[r].endpoint = "chat" /\ reqs[r].stream
     /\ reqs[r].seen = <<429, 200>>
     /\ reqs[r].used[1] # reqs[r].used[2]
     /\ logs[reqs[r].log_id].credential_id = reqs[r].used[2]

\* C18: a chat request for a model of tier 3 by a user whose credentials are
\* all of tier 2.5 ends with status 503, and its row records NO_CREDENTIAL
C18_Tier3WithoutTier3Credential ==
  \A r \in ReqIds :
     LET rq == reqs[r]
         own == { c \in CredIds : creds[c].user_id = rq.user }
     IN  ( /\ rq.pc = "done" /\ rq.endpoint = "chat"
           /\ get_required_tier(rq.model) = "3"
           /\ own # {}
           /\ \A c \in own : creds[c].model_tier = "2.5" )
         => /\ rq.status = 503
            /\ rq.log_id # 0
            /\ logs[rq.log_id].status_code = 503
            /\ logs[rq.log_id].error_type = "NO_CREDENTIAL"

\* C19: get_available_credential returns None only when no credential passes
\* the filters; when some pass and all of them are in cooldown for the group of
\* the model, it returns one of them with the earliest last_used_at
C19_FailOpenLeastRecentlyUsed ==
  [][\A model \in RotationModels, exclude_ids \in PoolExcludes :
       rotation_get_available_credential(model, exclude_ids)
       => LET passing == Candidates(creds, pool_mode, 1, TRUE, model,
                                    exclude_ids, "geminicli")
              all_in_cd == \A c \in passing :
                              /\ StampOf(creds[c], get_model_group(model)) # NoTime
                              /\ now < StampOf(creds[c], get_model_group(model))
                                         + get_cd_seconds(get_model_group(model))
          IN  /\ (last_call'.cred = NoCred) <=> (passing = {})
              /\ (passing # {} /\ all_in_cd)
                    => /\ last_call'.cred \in passing
                       /\ \A d \in passing :
                            creds[last_call'.cred].last_used_at
                              <= creds[d].last_used_at]_vars

\* a call that found two candidates, both in cooldown, and returned the one
\* used before the other
C19_Witness ==
  /\ Acquired /\ last_call.in_cd /\ last_call.rivals = 2
  /\ \E d \in CredIds \ {last_call.cred} :
       /\ creds[d].is_active
       /\ creds[d].last_used_at = now
       /\ creds[d].total_requests = 1
       /\ creds[last_call.cred].total_requests = 2
  /\ now > 0

\* C20: when a call of get_access_token has refreshed the token of a
\* credential and stored it, the next call for that credential, made within
\* seconds and so long before the new token expires, returns the stored token
\* without calling the OAuth endpoint
C20_SingleRefresh ==
  [][\A c \in CredIds, refresh_ok \in BOOLEAN :
       ( /\ last_call.op = "token" /\ last_call.cred = c /\ last_call.stored
         /\ get_access_token(c, refresh_ok) )
       => ~ last_call'.refreshed]_vars

\* C21: the frames of a finished fake-streaming request are one role-only
\* chunk, then keepalive chunks only, then exactly one content chunk, then one
\* chunk with finish_reason = stop, then [DONE] exactly once as the last frame
C21_FakeStreamFrames ==
  \A r \in ReqIds :
    LET f == reqs[r].frames
        n == Len(f)
    IN  (reqs[r].pc = "done" /\ n > 0 /\ reqs[r].task = "text") =>
          /\ n >= 4
          /\ f[1] = "role"
          /\ \A i \in 2 .. (n - 3) : f[i] = "keepalive"
          /\ f[n - 2] = "content"
          /\ f[n - 1] = "stop"
          /\ f[n] = "[DONE]"
          /\ Cardinality({ i \in 1 .. n : f[i] = "[DONE]" }) = 1

\* the upstream attempt of request r that ends with outcome o, in any handler
UpstreamAttempt(r, o, refresh_ok) ==
  \/ handle_non_stream(r, o, refresh_ok, "")
  \/ stream_generator_with_retry(r, o, refresh_ok, "")
  \/ gemini_generate_content_attempt(r, o, refresh_ok)

\* a credential the retry of request r could acquire once the failing one is
\* disabled
AnotherAvailable(r) ==
  LET rq == reqs[r]
      cr == [creds EXCEPT ![rq.credential] = [@ EXCEPT !.is_active = FALSE]]
  IN  PickCredential(cr, pool_mode, rq.user, rq.user_has_public, rq.model,
                     rq.tried, rq.mode, now) # {NoCred}

\* C22: an upstream attempt that fails with an auth error (401/403), while
\* retries remain and another credential is available, disables the
\* credential and leaves the request retrying with another credential
C22_AuthErrorRetried ==
  [][\A r \in ReqIds, o \in Outcomes :
       ( /\ UpstreamAttempt(r, o, TRUE)
         /\ o.status \in {401, 403}
         /\ reqs[r].retry_attempt < error_retry_count
         /\ AnotherAvailable(r) )
       => /\ ~ creds'[reqs[r].credential].is_active
          /\ reqs'[r].pc = "calling"
          /\ reqs'[r].credential # reqs[r].credential]_vars

\* C23: a non-stream request that ends in failure after at least one upstream
\* attempt responds with the HTTP status of its last upstream attempt, also
\* when the retries end because no further credential can be acquired
C23_LastUpstreamStatus ==
  \A r \in ReqIds :
    LET rq == reqs[r]
    IN  ( /\ rq.pc = "done" /\ rq.result = "error" /\ ~ rq.stream
          /\ Len(rq.seen) > 0
          /\ rq.seen[Len(rq.seen)] # 0 )
        => rq.status = rq.seen[Len(rq.seen)]

\* the model name without its variant token, and whether it has the agy token
WithoutVariantToken(raw) ==
  SelectSeq(raw, LAMBDA tok : tok \notin {"agy", "gcli"})

HasAgyToken(raw) == \E i \in 1 .. Len(raw) : raw[i] = "agy"

\* the entry of a chat request with model raw, in either handler
ChatRequest(r, u, raw, stream) ==
  \/ chat_completions(r, u, raw, stream, TRUE)
  \/ agy_chat_completions(r, u, raw, stream, TRUE, "")

\* C24: a chat request whose model has agy- after any streaming prefix is
\* served in mode antigravity, any other in mode geminicli, with the model
\* name stripped of the variant prefix and keeping the streaming prefix; every
\* upstream call of a request, first attempt or retry, uses a credential of
\* the variant of its mode
C24_VariantRouting ==
  /\ [](\A r \in ReqIds : \A i \in 1 .. Len(reqs[r].used) :
          creds[reqs[r].used[i]].api_type = reqs[r].mode)
  /\ [][\A r \in ReqIds, u \in Users, raw \in RoutingModels, stream \in BOOLEAN :
          (ChatRequest(r, u, raw, stream) /\ reqs'[r].credential # NoCred)
          => /\ reqs'[r].mode = IF HasAgyToken(raw) THEN "antigravity" ELSE "geminicli"
             /\ reqs'[r].model = WithoutVariantToken(raw)
             /\ creds[reqs'[r].credential].api_type = reqs'[r].mode]_vars

\* a request with a streaming prefix and the agy- prefix that was retried:
\* both of its upstream calls were made
C24_Witness ==
  \E r \in ReqIds :
    /\ Len(reqs[r].used) = 2
    /\ reqs[r].used[1] # reqs[r].used[2]
    /\ reqs[r].mode = "antigravity"
    /\ Head(reqs[r].model) = "anti_truncation/"

\* a value limited to the nearest bound of 1 .. max
Nearest(v, max) == IF v < 1 THEN 1 ELSE IF v > max THEN max ELSE v

\* C25: the topK and the maxOutputTokens a request forwards are the
\* requested values limited to the nearest bound of 1 .. 64 and 1 .. 65536:
\* below 1 becomes 1, above the maximum becomes the maximum, values inside
\* the range are unchanged
C25_ClampToNearestBound ==
  \A r \in ReqIds :
    LET rq == reqs[r]
    IN  rq.pc = "built" =>
          /\ rq.gen_config.topK # NoValue =>
                rq.request_body.topK = Nearest(rq.gen_config.topK, TopKMax)
          /\ rq.gen_config.maxOutputTokens # NoValue =>
                rq.request_body.maxOutputTokens =
                  Nearest(rq.gen_config.maxOutputTokens, MaxOutputTokensMax)

\* the call of get_custom_error_message has returned
MessageCall == last_call.op \in {"get_custom_error_message", "get_custom_error_message_sync"}

\* a rule matches as the claim states it: the keyword, when set, is a
\* case-insensitive substring of the text, and the kind, when set, is the
\* classified kind
MatchesAsStated(config) ==
  /\ config.keyword # <<>> =>
        IsSubstring(LowerText(config.keyword), LowerText(last_call.error_text))
  /\ config.error_type # "" => config.error_type = last_call.error_type

\* the same, for rules that set a keyword or a kind
MatchesWithCriterion(config) ==
  /\ config.keyword # <<>> \/ config.error_type # ""
  /\ MatchesAsStated(config)

\* C26 as stated: the call returns the message of a highest-priority active
\* rule that matches, a rule matching iff its keyword (when set) is a
\* case-insensitive substring of the text and its kind (when set) equals the
\* classified kind; it returns nothing when no rule matches or the switch is off
C26_RuleMatchingAsStated ==
  MessageCall =>
    LET rules == last_call.rules
        matching == { i \in DOMAIN rules :
                        rules[i].is_active /\ MatchesAsStated(rules[i]) }
        off == last_call.op = "get_custom_error_message" /\ ~ last_call.enabled
    IN  IF off \/ matching = {}
          THEN last_call.message = NoRule
          ELSE /\ last_call.message \in matching
               /\ \A j \in matching :
                     rules[j].priority <= rules[last_call.message].priority

\* C26, amended: as above, where only a rule that sets a keyword or a kind
\* can match
C26_RuleMatching ==
  MessageCall =>
    LET rules == last_call.rules
        matching == { i \in DOMAIN rules :
                        rules[i].is_active /\ MatchesWithCriterion(rules[i]) }
        off == last_call.op = "get_custom_error_message" /\ ~ last_call.enabled
    IN  IF off \/ matching = {}
          THEN last_call.message = NoRule
          ELSE /\ last_call.message \in matching
               /\ \A j \in matching :
                     rules[j].priority <= rules[last_call.message].priority

\* a call that returned the rule of priority 1 with keyword and kind, found
\* in a text of other case, although a rule of priority 0 matches as well
C26_Witness ==
  /\ last_call.op = "get_custom_error_message"
  /\ last_call.message # NoRule
  /\ LET rules == last_call.rules
         hit == rules[last_call.message]
     IN  /\ hit.keyword # <<>> /\ hit.error_type # "" /\ hit.priority = 1
         /\ ~ IsSubstring(hit.keyword, last_call.error_text)
         /\ \E j \in DOMAIN rules :
               /\ j # last_call.message
               /\ rules[j].is_active /\ rules[j].priority = 0
               /\ MatchesWithCriterion(rules[j])

\* the retry of request r after outcome o finds no credential to acquire
RetryFindsNone(r, o) ==
  LET rq == reqs[r]
      subs == ErrorSubstrings(o)
  IN  /\ o.status # 200
      /\ should_retry_chat(subs)
      /\ rq.retry_attempt < error_retry_count
      /\ PickCredential(FailureCreds(creds, rq.credential, subs), pool_mode,
                        rq.user, rq.user_has_public, rq.model, rq.tried,
                        rq.mode, now) = {NoCred}

\* C27: when the acquisition of a non-stream chat request returns no
\* credential on a retry, the request ends with HTTP 503 and its UsageLog row
\* is finalised with status 503 and error kind NO_CREDENTIAL
C27_NoCredentialTerminal ==
  [][\A r \in ReqIds, o \in Outcomes, refresh_ok \in BOOLEAN :
       (handle_non_stream(r, o, refresh_ok, "") /\ RetryFindsNone(r, o))
       => /\ reqs'[r].pc = "done"
          /\ reqs'[r].status = 503
          /\ logs'[reqs[r].log_id].status_code = 503
          /\ logs'[reqs[r].log_id].error_type = "NO_CREDENTIAL"]_vars

\* C28: when a candidate that passes the filters is not in cooldown for the
\* group of the model, get_available_credential returns such a candidate, one
\* with the earliest last_used_at among them (never used first), and so never
\* one in cooldown
C28_FirstAvailableLeastRecentlyUsed ==
  [][\A model \in RotationModels, exclude_ids \in PoolExcludes :
       rotation_get_available_credential(model, exclude_ids)
       => LET passing == Candidates(creds, pool_mode, 1, TRUE, model,
                                    exclude_ids, "geminicli")
              g == get_model_group(model)
              free == { c \in passing :
                          \/ StampOf(creds[c], g) = NoTime
                          \/ now >= StampOf(creds[c], g) + get_cd_seconds(g) }
          IN  free # {}
                => /\ last_call'.cred \in free
                   /\ \A d \in free :
                        creds[last_call'.cred].last_used_at
                          <= creds[d].last_used_at]_vars

\* a call that found two candidates, one of them in cooldown for the group,
\* and returned the other one, which had been used before
C28_Witness ==
  /\ Acquired /\ ~ last_call.in_cd /\ last_call.rivals = 2
  /\ creds[last_call.cred].total_requests = 2
  /\ \E d \in CredIds \ {last_call.cred} :
       /\ creds[d].is_active
       /\ StampOf(creds[d], get_model_group(last_call.model)) # NoTime
       /\ now < StampOf(creds[d], get_model_group(last_call.model))
                  + get_cd_seconds(get_model_group(last_call.model))
       /\ creds[d].last_used_at < now

\* C29: a call of get_available_credential that returns a credential sets its
\* last_used_at and the stamp of the group of the model to now and adds 1 to
\* its total_requests; its other two stamps, its active flag, its failure
\* counter and every other credential stay as they were.  A call that
\* returns nothing changes no credential.
C29_AcquireFrame ==
  [][\A model \in RotationModels, exclude_ids \in PoolExcludes :
       rotation_get_available_credential(model, exclude_ids)
       => LET c == last_call'.cred
              g == get_model_group(model)
          IN  IF c = NoCred THEN creds' = creds
              ELSE /\ \A d \in CredIds \ {c} : creds'[d] = creds[d]
                   /\ creds'[c].last_used_at = now
                   /\ creds'[c].total_requests = creds[c].total_requests + 1
                   /\ creds'[c].last_used_30 =
                         IF g = "30" THEN now ELSE creds[c].last_used_30
                   /\ creds'[c].last_used_pro =
                         IF g = "pro" THEN now ELSE creds[c].last_used_pro
                   /\ creds'[c].last_used_flash =
                         IF g = "flash" THEN now ELSE creds[c].last_used_flash
                   /\ creds'[c].is_active = creds[c].is_active
                   /\ creds'[c].failed_requests = creds[c].failed_requests
                   /\ \A f \in {"user_id", "api_type", "project_id", "model_tier",
                                 "is_public", "api_key", "token_expiry"} :
                         creds'[c][f] = creds[c][f]]_vars

\* a credential stamped for pro earlier is returned for a flash model: its
\* flash stamp is now, its pro stamp is the earlier one
C29_Witness ==
  /\ Acquired /\ get_model_group(last_call.model) = "flash"
  /\ creds[last_call.cred].last_used_flash = now
  /\ creds[last_call.cred].last_used_pro # NoTime
  /\ creds[last_call.cred].last_used_pro < now
  /\ creds[last_call.cred].total_requests = 2

\* the numbers the sources of a retry delay yield, in the order header,
\* retryDelay, retry after N, N seconds
SourceNumbers(error_text, header) ==
  LET first(kinds) ==
        IF \E i \in 1 .. Len(error_text) : error_text[i].kind \in kinds
          THEN <<error_text[CHOOSE i \in 1 .. Len(error_text) :
                              /\ error_text[i].kind \in kinds
                              /\ \A j \in 1 .. (i - 1) :
                                    error_text[j].kind \notin kinds].n>>
          ELSE <<>>
  IN  (IF header.set /\ header.numeric THEN <<header.value>> ELSE <<>>)
        \o first({"retryDelay"})
        \o first({"retry_after_s", "retry_after_seconds"})
        \o first({"seconds", "retry_after_seconds"})

RetryAsStated(o) ==
  \/ o.status \in {429, 500, 502, 503, 504, 404}
  \/ o.status = 0 /\ o.body = "timeout"

\* C31: after a failed attempt the handler goes on to another attempt iff
\* retries remain and the status is one of 429, 500, 502, 503, 504, 404 or the
\* error is a connection reset or timeout; after any other failure it stops.
\* The same on the chat endpoint and on the native endpoint.
C31_RetryDecision ==
  [][\A r \in ReqIds, o \in Outcomes :
       ( /\ \/ handle_non_stream(r, o, TRUE, "")
            \/ gemini_generate_content_attempt(r, o, TRUE)
         /\ o.status # 200
         /\ Len(reqs'[r].seen) = Len(reqs[r].seen) + 1 )
       => /\ ~ RetryAsStated(o) => reqs'[r].pc = "done"
          /\ ( /\ RetryAsStated(o)
               /\ reqs[r].retry_attempt < error_retry_count
               /\ reqs[r].endpoint = "chat" => AnotherAvailable(r) )
             => reqs'[r].pc = "calling"]_vars

\* C32: no bonus quota is ever negative; failure handling that disables a
\* public credential on an auth failure deducts quota_flash + quota_25pro,
\* plus quota_30pro for a tier-3 credential, from the bonus quota of its owner,
\* stopping at zero, and changes no other user; disabling a credential that
\* is not public deducts nothing
C32_BonusDeduction ==
  [][\A c \in CredIds, o \in PoolErrors :
       handle_credential_failure(c, o)
       => LET owner == creds[c].user_id
              reward == IF creds[c].model_tier = "3"
                          THEN quota_flash + quota_25pro + quota_30pro
                          ELSE quota_flash + quota_25pro
              disabling == creds[c].is_active /\ ~ creds'[c].is_active
          IN  /\ \A u \in Users : users'[u].bonus_quota >= 0
              /\ (disabling /\ creds[c].is_public)
                    => /\ users'[owner].bonus_quota =
                            IF users[owner].bonus_quota - reward < 0 THEN 0
                            ELSE users[owner].bonus_quota - reward
                       /\ \A u \in Users \ {owner} : users'[u] = users[u]
              /\ (disabling /\ ~ creds[c].is_public) => users' = users]_vars

\* two public credentials of one owner were disabled and the second
\* deduction stopped at zero
C32_Witness ==
  \E u \in Users :
    /\ users[u].bonus_quota = 0
    /\ Cardinality({ c \in disabled :
                       creds[c].user_id = u /\ creds[c].is_public }) = 2
    /\ 2 * (quota_flash + quota_25pro) > InitialBonus

\* a handler that ran handle_credential_failure to its end for credential c
\* after an authorisation failure
AuthFailureHandled(h, c) ==
  /\ last_call[h].pc = "done"
  /\ last_call[h].op = "handle_credential_failure"
  /\ last_call[h].cred = c
  /\ ~ creds[c].is_active

\* C33: when two requests have both handled an authorisation failure of the
\* same credential, the credential is disabled and the bonus quota of its
\* owner is what one handling leaves: the reward of the credential deducted
\* once from the initial bonus quota
C33_FailureHandlingIdempotent ==
  \A c \in CredIds :
    ( /\ \A h \in Handlers : AuthFailureHandled(h, c)
      /\ creds[c].is_public )
    => users[creds[c].user_id].bonus_quota =
         IF creds[c].model_tier = "3"
           THEN InitialBonus - (quota_flash + quota_25pro + quota_30pro)
           ELSE InitialBonus - (quota_flash + quota_25pro)

\* C40: when no failure handler is running, the failed_requests of every
\* credential is the number of failure-handling calls completed for it
C40_FailedRequestsCount ==
  (\A h \in Handlers : last_call[h].pc \in {"idle", "done"})
  => \A c \in CredIds :
       creds[c].failed_requests =
         Cardinality({ h \in Handlers :
                         last_call[h].pc = "done" /\ last_call[h].cred = c })

\* user u owns an active tier-3 credential
OwnsActiveTier3(u) ==
  \E c \in CredIds :
    creds[c].user_id = u /\ creds[c].model_tier = "3" /\ creds[c].is_active

\* C34: in tier3_shared mode a tier-3 request of a user without an active
\* tier-3 credential is handed only a credential of that user, a tier-3
\* request is otherwise handed a credential of the user or a public tier-3
\* credential, and any other request is handed a credential of the user or a
\* public credential
C34_Tier3SharedScope ==
  (Acquired /\ pool_mode = "tier3_shared")
  => LET cred == creds[last_call.cred]
         u == last_call.user_id
         tier3 == get_required_tier(last_call.model) = "3"
     IN  /\ cred.is_active
         /\ (tier3 /\ ~ OwnsActiveTier3(u)) => cred.user_id = u
         /\ tier3 => /\ cred.model_tier = "3"
                     /\ cred.user_id = u \/ cred.is_public
         /\ ~ tier3 => cred.user_id = u \/ cred.is_public

\* a tier-3 request of a user with an active tier-3 credential was handed
\* the public tier-3 credential of another user
C34_Witness ==
  /\ pool_mode = "tier3_shared"
  /\ last_call.op = "acquire"
  /\ last_call.cred # NoCred
  /\ get_required_tier(last_call.model) = "3"
  /\ OwnsActiveTier3(last_call.user_id)
  /\ creds[last_call.cred].user_id # last_call.user_id
  /\ creds[last_call.cred].is_public
  /\ creds[last_call.cred].model_tier = "3"

\* C35: a request of an admin user is never rejected by the quota checks:
\* not by the RPM limit, not by the daily quota of a model class or the
\* total daily quota, not by the tier-3 eligibility check
C35_AdminNeverRejected ==
  \A r \in DOMAIN reqs :
     ( /\ reqs[r].pc = "done"
       /\ reqs[r].user \in Users
       /\ users[reqs[r].user].is_admin )
     => ~ (reqs[r].result = "error" /\ reqs[r].status \in {403, 429})

\* C36: when a user asks the pool for an antigravity credential and owns an
\* active one stored without a project_id, with no other credential
\* available, the request is handed that credential, the one whose
\* project_id get_access_token_and_project then resolves and stores
C36_ProjectResolvedOnFirstUse ==
  [][\A u \in Users, flag \in BOOLEAN, model \in PoolModels :
       ( /\ get_available_credential(u, flag, model, {}, "antigravity")
         /\ \E c \in CredIds :
              /\ creds[c].user_id = u
              /\ creds[c].is_active
              /\ creds[c].api_type = "antigravity"
              /\ creds[c].project_id \in {"NULL", ""}
         /\ \A d \in CredIds :
              (creds[d].is_active /\ creds[d].api_type = "antigravity")
                => creds[d].project_id \in {"NULL", ""} )
       => /\ last_call'.cred # NoCred
          /\ creds[last_call'.cred].user_id = u
          /\ creds[last_call'.cred].project_id \in {"NULL", ""}]_vars

\* C37: the chunks a streaming response has carried to the client all come
\* from one upstream attempt, made with one credential
C37_ChunksOfOneAttempt ==
  \A r \in ReqIds :
    \A i, j \in 1 .. Len(reqs[r].frames) :
      /\ reqs[r].frames[i].attempt = reqs[r].frames[j].attempt
      /\ reqs[r].frames[i].cred = reqs[r].frames[j].cred

\* C38: in full_shared mode, whenever a request is handed a public
\* credential of another user, on its first attempt or on a retry, the
\* requesting user owns an active public credential of the variant of the
\* request at that moment
C38_DonorAtHandOut ==
  [][\A r \in ReqIds :
       \A c \in reqs'[r].tried \ reqs[r].tried :
         ( /\ pool_mode = "full_shared"
           /\ creds'[c].is_public
           /\ creds'[c].user_id # reqs'[r].user )
         => \E d \in CredIds :
              /\ creds'[d].user_id = reqs'[r].user
              /\ creds'[d].is_public
              /\ creds'[d].is_active
              /\ creds'[d].api_type = reqs'[r].mode]_vars

\* the requests of user u the quota block has admitted
AgyAdmitted(u) ==
  { r \in AgyReqs : last_call[r].pc = "admitted" /\ last_call[r].user = u }

\* C39: for a user who is not an admin the number of admitted antigravity
\* chat requests never exceeds the quota of the user, used_antigravity never
\* exceeds it either, and once no request is between its load and its quota
\* check used_antigravity is the number of admitted requests
C39_AntigravityQuota ==
  \A u \in Users :
    ~ users[u].is_admin
    => /\ Cardinality(AgyAdmitted(u)) <= user_quota_antigravity(users[u])
       /\ users[u].used_antigravity <= user_quota_antigravity(users[u])
       /\ (\A r \in AgyReqs : last_call[r].pc # "loaded")
            => users[u].used_antigravity = Cardinality(AgyAdmitted(u))

====
